---- MODULE Spec2Model ----
(***************************************************************************)
(* Timesheet / billing reconciliation engine (src/app/main.py, db.py).     *)
(*                                                                         *)
(* Values.  A Python / pandas value is a record [k, n, s]:                 *)
(*   k = "num"  : a float; n is the value in hundredths of an hour (or of  *)
(*                a currency unit), so 0.01 is 1 and 168.0 is 16800        *)
(*   k = "nan"  : float NaN (an empty spreadsheet cell, or the cells of    *)
(*                the absent side of an outer join)                        *)
(*   k = "str"  : a string, s                                              *)
(*   k = "date" : a date (or a pandas Timestamp cell); n = yyyymmdd        *)
(*   k = "none" : None / SQL NULL                                          *)
(*   k = "raise": a conversion that raised an exception                    *)
(* Columns that are never NULL (month, statuses, ReconEntry.citi_email,    *)
(* project_code) hold plain strings, counters plain integers.              *)
(***************************************************************************)
EXTENDS Integers, Sequences, FiniteSets, TLC

VARIABLES recon, employees, cg_daily, citi_daily, time_off, last, ops, calc, sessions

vars == <<recon, employees, cg_daily, citi_daily, time_off, last, ops, calc, sessions>>

-----------------------------------------------------------------------------
(* Bounds of the model *)

\* operations executed in one behaviour
MaxOps == 3

-----------------------------------------------------------------------------
(* Values *)

Num(n) == [k |-> "num", n |-> n, s |-> ""]
Text(s) == [k |-> "str", n |-> 0, s |-> s]
Date(n) == [k |-> "date", n |-> n, s |-> ""]
NaN == [k |-> "nan", n |-> 0, s |-> ""]
None == [k |-> "none", n |-> 0, s |-> ""]
Raised == [k |-> "raise", n |-> 0, s |-> ""]

IsNum(x) == x.k = "num"
IsNaN(x) == x.k = "nan"
IsNone(x) == x.k = "none"
IsRaised(x) == x.k = "raise"

\* pd.isna(x): NaN and None are both missing values
IsNA(x) == x.k \in {"nan", "none"}

\* bool(x): None, 0, 0.0 and "" are false; NaN is true
Truthy(x) ==
  CASE x.k = "none" -> FALSE
    [] x.k = "num" -> x.n # 0
    [] x.k = "str" -> x.s # ""
    [] OTHER -> TRUE

\* x or d
Or(x, d) == IF Truthy(x) THEN x ELSE d

\* float literals that occur as strings in the modelled sheets
FloatLiteral == ("8" :> 800) @@ ("7.5" :> 750)

\* float(x): numbers and NaN pass, a numeric string is parsed, anything else raises
Float(x) ==
  CASE x.k = "num" -> x
    [] x.k = "nan" -> x
    [] x.k = "str" -> IF x.s \in DOMAIN FloatLiteral THEN Num(FloatLiteral[x.s]) ELSE Raised
    [] OTHER -> Raised

\* str(x) of a string, NaN or None
Str(x) ==
  CASE x.k = "str" -> x.s
    [] x.k = "nan" -> "nan"
    [] x.k = "none" -> "None"

\* IEEE comparisons: every comparison with NaN is false
Lt(x, y) == IsNum(x) /\ IsNum(y) /\ x.n < y.n
Le(x, y) == IsNum(x) /\ IsNum(y) /\ x.n <= y.n
Gt(x, y) == IsNum(x) /\ IsNum(y) /\ x.n > y.n

\* abs(x - y)
AbsDiff(x, y) ==
  IF IsNum(x) /\ IsNum(y)
  THEN Num(IF x.n >= y.n THEN x.n - y.n ELSE y.n - x.n)
  ELSE NaN

\* Python's min(a, b, c): the first argument is kept unless a later one is < it
Min3(a, b, c) ==
  LET m1 == IF Lt(b, a) THEN b ELSE a
  IN IF Lt(c, m1) THEN c ELSE m1

\* what SQLite stores for a bound float: NaN becomes NULL
ToDb(x) == IF IsNaN(x) THEN None ELSE x

-----------------------------------------------------------------------------
(* Calendar *)

DateOf(y, m, d) == y * 10000 + m * 100 + d
YearOf(dt) == dt \div 10000
MonthOf(dt) == (dt \div 100) % 100
DayOf(dt) == dt % 100

IsLeap(y) == (y % 4 = 0 /\ y % 100 # 0) \/ y % 400 = 0

\* calendar.monthrange(year, month)[1]
DaysInMonth(y, m) ==
  CASE m \in {1, 3, 5, 7, 8, 10, 12} -> 31
    [] m \in {4, 6, 9, 11} -> 30
    [] m = 2 -> IF IsLeap(y) THEN 29 ELSE 28

\* date.weekday(): Monday is 0, Sunday is 6
Weekday(dt) ==
  LET y == YearOf(dt)
      m == MonthOf(dt)
      d == DayOf(dt)
      t == <<0, 3, 2, 5, 0, 3, 5, 1, 4, 6, 2, 4>>
      yy == IF m < 3 THEN y - 1 ELSE y
      sundayFirst == (yy + yy \div 4 - yy \div 100 + yy \div 400 + t[m] + d) % 7
  IN (sundayFirst + 6) % 7

is_weekend(dt) == Weekday(dt) >= 5

\* dt + datetime.timedelta(days=1)
NextDay(dt) ==
  LET y == YearOf(dt)
      m == MonthOf(dt)
      d == DayOf(dt)
  IN IF d < DaysInMonth(y, m) THEN DateOf(y, m, d + 1)
     ELSE IF m < 12 THEN DateOf(y, m + 1, 1)
     ELSE DateOf(y + 1, 1, 1)

\* the tokens of str.split(",") of the holiday strings that occur in the model,
\* each after strip(); any other string is a single token
CsvTokens(s) ==
  CASE s = "" -> <<"">>
    [] s = "2025-01-01,2025-01-04" -> <<"2025-01-01", "2025-01-04">>
    [] s = "2025-01-01, junk,2025-01-01" -> <<"2025-01-01", "junk", "2025-01-01">>
    [] s = "2025-01-13, 2025-01-15,,2025-02-03" ->
         <<"2025-01-13", "2025-01-15", "", "2025-02-03">>
    [] OTHER -> <<s>>

\* datetime.date.fromisoformat / pd.to_datetime of a string (after strip)
IsoDate ==
  ("2025-01-01" :> 20250101) @@ ("2025-01-04" :> 20250104) @@
  ("2025-01-13" :> 20250113) @@ ("2025-01-15" :> 20250115) @@
  ("2025-01-30" :> 20250130) @@ ("2025-02-03" :> 20250203)

\* the set of holiday dates parsed from the Holidays cell; malformed tokens are dropped
HolidaySet(holidays_csv) ==
  IF ~Truthy(holidays_csv) THEN {}
  ELSE LET toks == CsvTokens(Str(holidays_csv))
       IN {IsoDate[toks[i]] : i \in {j \in 1..Len(toks) : toks[j] \in DOMAIN IsoDate}}

\* number of days d in lo..hi of month (y, m) that are neither weekend nor in skip
RECURSIVE WorkdaysFrom(_, _, _, _, _)
WorkdaysFrom(y, m, lo, hi, skip) ==
  IF lo > hi THEN 0
  ELSE (IF is_weekend(DateOf(y, m, lo)) \/ DateOf(y, m, lo) \in skip THEN 0 ELSE 1)
       + WorkdaysFrom(y, m, lo + 1, hi, skip)

\* A faulty variant of expected_hours_for_month that takes 8 hours off for every
\* listed date, weekend or not, in the month or not (C14 fails).
ExpectedMinusListed(year, month, holidays_csv) ==
  IF month \notin 1..12 THEN Raised
  ELSE Num(8 * 100 * (WorkdaysFrom(year, month, 1, DaysInMonth(year, month), {})
                      - Cardinality(HolidaySet(holidays_csv))))

\* expected_hours_for_month(year, month, holidays_csv), in hundredths; raises for a
\* month outside 1..12 (calendar.monthrange)
expected_hours_for_month(year, month, holidays_csv) ==
  IF month \notin 1..12 THEN Raised
  ELSE Num(8 * 100 * WorkdaysFrom(year, month, 1, DaysInMonth(year, month),
                                  HolidaySet(holidays_csv)))

\* A faulty variant of status_from that calls every positive figure Completed,
\* whatever the total (C22 fails).
StatusFromPositive(total, submitted) ==
  IF Le(Float(Or(submitted, Num(0))), Num(0)) THEN "Not Completed" ELSE "Completed"

\* status_from(total, submitted)
status_from(total, submitted) ==
  LET t == Float(Or(total, Num(0)))
      sub == Float(Or(submitted, Num(0)))
  IN IF Le(sub, Num(0)) THEN "Not Completed"
     ELSE IF Lt(sub, t) THEN "Partial"
     ELSE "Completed"

\* working_days_between(start, end): Monday-to-Friday days of [start, end], bounds
\* swapped when reversed
RECURSIVE CountWorkdays(_, _)
CountWorkdays(cur, end) ==
  IF cur > end THEN 0
  ELSE (IF is_weekend(cur) THEN 0 ELSE 1) + CountWorkdays(NextDay(cur), end)

working_days_between(start, end) ==
  IF end < start THEN CountWorkdays(end, start) ELSE CountWorkdays(start, end)

\* working_days_overlap_in_month(start, end, year, month)
working_days_overlap_in_month(start, end, year, month) ==
  LET s == IF end < start THEN end ELSE start
      e == IF end < start THEN start ELSE end
      first_of_month == DateOf(year, month, 1)
      last_of_month == DateOf(year, month, DaysInMonth(year, month))
      start_clamped == IF s > first_of_month THEN s ELSE first_of_month
      end_clamped == IF e < last_of_month THEN e ELSE last_of_month
  IN IF end_clamped < start_clamped THEN 0 ELSE CountWorkdays(start_clamped, end_clamped)

\* approved_timeoff_hours_for_month(db, citi_email, year, month), in hundredths;
\* timeoff is the time_off table, citi_email a string
RECURSIVE ApprovedHoursFrom(_, _, _, _, _)
ApprovedHoursFrom(timeoff, i, citi_email, year, month) ==
  IF i > Len(timeoff) THEN 0
  ELSE LET t == timeoff[i]
           selected == /\ t.citi_email = citi_email
                       /\ t.status = "Approved"
                       /\ t.start_date <= DateOf(year, month, DaysInMonth(year, month))
                       /\ t.end_date >= DateOf(year, month, 1)
       IN (IF selected
           THEN working_days_overlap_in_month(t.start_date, t.end_date, year, month) * 8 * 100
           ELSE 0)
          + ApprovedHoursFrom(timeoff, i + 1, citi_email, year, month)

approved_timeoff_hours_for_month(timeoff, citi_email, year, month) ==
  IF citi_email = "" THEN 0 ELSE ApprovedHoursFrom(timeoff, 1, citi_email, year, month)

-----------------------------------------------------------------------------
(* Strings *)

\* str.strip() of the strings with surrounding whitespace that occur in the model
Strip(s) ==
  CASE s = " " -> ""
    [] s = "Citi Email " -> "Citi Email"
    [] s = " P200 " -> "P200"
    [] OTHER -> s

\* str.lower() of the strings with upper-case letters that occur as e-mails
Lower(s) ==
  CASE s = "A@x" -> "a@x"
    [] OTHER -> s

\* 'YYYY-MM'.split("-") mapped through int(): the labels that parse to two integers
ParsedLabel ==
  ("2025-01" :> <<2025, 1>>) @@ ("2025-02" :> <<2025, 2>>) @@
  ("2025-1" :> <<2025, 1>>) @@ ("2025-13" :> <<2025, 13>>)

\* f"{year:04d}-{month:02d}"
FormatYm(year, month) ==
  CASE year = 2025 /\ month = 1 -> "2025-01"
    [] year = 2025 /\ month = 2 -> "2025-02"
    [] year = 2025 /\ month = 3 -> "2025-03"

\* position of a key value in pandas' ascending sort order (strings by code point,
\* missing values last)
SortRank(x) ==
  CASE IsNA(x) -> 99
    [] x = Text("2025-01") -> 1
    [] x = Text("2025-02") -> 2
    [] x = Text("2025-1") -> 3
    [] x = Text("2025-13") -> 4
    [] x = Text("A@x") -> 5
    [] x = Text("a@x") -> 6
    [] x = Text("b@x") -> 7
    [] x = Text("bad") -> 8

-----------------------------------------------------------------------------
(* Sheets and rows *)

\* A sheet is [columns: sequence of header strings, rows: sequence of cell tuples].
\* The data frame read from it, with the headers stripped: a set of column names
\* and a sequence of rows, each a function from column name to cell.
DataFrame(sheet) ==
  LET cols == {Strip(sheet.columns[j]) : j \in 1..Len(sheet.columns)}
      pos(c) == CHOOSE j \in 1..Len(sheet.columns) : Strip(sheet.columns[j]) = c
  IN [cols |-> cols,
      rows |-> [i \in 1..Len(sheet.rows) |-> [c \in cols |-> sheet.rows[i][pos(c)]]]]

\* df[col] = None when the column is absent
WithColumn(df, col) ==
  IF col \in df.cols THEN df
  ELSE [cols |-> df.cols \cup {col},
        rows |-> [i \in 1..Len(df.rows) |->
                    [c \in df.cols \cup {col} |-> IF c = col THEN None ELSE df.rows[i][c]]]]

\* row.get(col)
RowGet(row, col) == IF col \in DOMAIN row THEN row[col] ELSE None

\* choose_col(row, *names, default=""): the first listed column that is present
\* and not missing
RECURSIVE ChooseFrom(_, _, _, _)
ChooseFrom(row, names, i, default) ==
  IF i > Len(names) THEN default
  ELSE IF names[i] \in DOMAIN row /\ ~IsNA(row[names[i]]) THEN row[names[i]]
  ELSE ChooseFrom(row, names, i + 1, default)

choose_col(row, names) == ChooseFrom(row, names, 1, Text(""))

\* the first listed column whose value is present, not missing and, stripped, non-empty
RECURSIVE FirstCode(_, _, _)
FirstCode(row, candidates, i) ==
  IF i > Len(candidates) THEN ""
  ELSE IF /\ candidates[i] \in DOMAIN row
          /\ ~IsNA(row[candidates[i]])
          /\ Strip(Str(row[candidates[i]])) # ""
       THEN Strip(Str(row[candidates[i]]))
  ELSE FirstCode(row, candidates, i + 1)

\* choose_project_code(row)
choose_project_code(row) ==
  LET candidates == <<"Project Code_cg", "Project Code_citi", "Project Code",
                      "ProjectCode_cg", "ProjectCode_citi", "ProjectCode",
                      "Proj Code_cg", "Proj Code_citi", "Proj Code",
                      "Project_cg", "Project_citi", "Project">>
      val == FirstCode(row, candidates, 1)
  IN IF val # "" THEN val ELSE "UNKNOWN"

\* pd.merge(df_cg, df_citi, on=["Citi Email", "Month"], how="outer",
\* suffixes=("_cg", "_citi")), sorted by the key and de-duplicated keeping the
\* last row of each key: one row per key, built from the last CG row and the last
\* CITI row of that key; the columns of an absent side are NaN
MergeKey(row) == <<row["Citi Email"], row["Month"]>>

KeyRank(key) == SortRank(key[1]) * 100 + SortRank(key[2])

RECURSIVE SortKeys(_)
SortKeys(S) ==
  IF S = {} THEN <<>>
  ELSE LET first == CHOOSE x \in S : \A y \in S : KeyRank(x) <= KeyRank(y)
       IN <<first>> \o SortKeys(S \ {first})

LastWithKey(df, key) ==
  LET hits == {i \in 1..Len(df.rows) : MergeKey(df.rows[i]) = key}
  IN IF hits = {} THEN 0 ELSE CHOOSE i \in hits : \A j \in hits : j <= i

MergedRow(df_cg, df_citi, key) ==
  LET on == {"Citi Email", "Month"}
      overlap == (df_cg.cols \cap df_citi.cols) \ on
      left(c) == IF c \in overlap THEN c \o "_cg" ELSE c
      right(c) == IF c \in overlap THEN c \o "_citi" ELSE c
      li == LastWithKey(df_cg, key)
      ri == LastWithKey(df_citi, key)
      names == {left(c) : c \in df_cg.cols} \cup {right(c) : c \in df_citi.cols}
  IN [name \in names |->
        IF name = "Citi Email" THEN key[1]
        ELSE IF name = "Month" THEN key[2]
        ELSE IF \E c \in df_cg.cols : left(c) = name
        THEN (IF li = 0 THEN NaN
              ELSE df_cg.rows[li][CHOOSE c \in df_cg.cols : left(c) = name])
        ELSE (IF ri = 0 THEN NaN
              ELSE df_citi.rows[ri][CHOOSE c \in df_citi.cols : right(c) = name])]

Merged(df_cg, df_citi) ==
  LET keys == {MergeKey(df_cg.rows[i]) : i \in 1..Len(df_cg.rows)}
              \cup {MergeKey(df_citi.rows[i]) : i \in 1..Len(df_citi.rows)}
      order == SortKeys(keys)
  IN [i \in 1..Len(order) |-> MergedRow(df_cg, df_citi, order[i])]

-----------------------------------------------------------------------------
(* Status derivation (ingest_workbook, per merged row) *)

\* tol
Tol == 1

\* effective_expected = max(base_expected - timeoff_hours, 0.0)
EffectiveExpected(base_expected, timeoff_hours) ==
  IF base_expected.n - timeoff_hours > 0 THEN Num(base_expected.n - timeoff_hours) ELSE Num(0)

\* A faulty variant of ReconciledStatus that looks at the per-source statuses
\* before the difference (C4 fails).
ReconciledStatusCompletedFirst(submitted_cg, submitted_citi, status_cg, status_citi) ==
  IF Le(submitted_cg, Num(Tol)) /\ Le(submitted_citi, Num(Tol)) THEN "Not Completed"
  ELSE IF status_cg = "Completed" /\ status_citi = "Completed" THEN "Completed"
  ELSE IF Gt(AbsDiff(submitted_cg, submitted_citi), Num(Tol)) THEN "Mismatch"
  ELSE "Partial"

\* the if / elif chain that sets reconciled_status
ReconciledStatus(submitted_cg, submitted_citi, status_cg, status_citi) ==
  LET diff == AbsDiff(submitted_cg, submitted_citi)
  IN IF Le(submitted_cg, Num(Tol)) /\ Le(submitted_citi, Num(Tol)) THEN "Not Completed"
     ELSE IF Gt(diff, Num(Tol)) THEN "Mismatch"
     ELSE IF status_cg = "Completed" /\ status_citi = "Completed" THEN "Completed"
     ELSE "Partial"

\* statuses and reconciled hours of one row from its three figures
Reconcile(effective_expected, submitted_cg_in, submitted_citi_in) ==
  LET submitted_cg == Float(Or(submitted_cg_in, Num(0)))
      submitted_citi == Float(Or(submitted_citi_in, Num(0)))
      status_cg == status_from(effective_expected, submitted_cg)
      status_citi == status_from(effective_expected, submitted_citi)
  IN [submitted_cg |-> submitted_cg,
      submitted_citi |-> submitted_citi,
      status_cg |-> status_cg,
      status_citi |-> status_citi,
      reconciled_hours |-> Min3(submitted_cg, submitted_citi, effective_expected),
      reconciled_status |->
        ReconciledStatus(submitted_cg, submitted_citi, status_cg, status_citi)]

-----------------------------------------------------------------------------
(* Workbook ingestion: the monthly sheets *)

\* One merged row of ingest_workbook's loop, up to the two db.add calls:
\* kind "skip" (continue), "raise" (an exception leaves the loop) or "ok" with the
\* ReconEntry to add and the arguments of upsert_employee_from_row
MonthlyRow(row, timeoff) ==
  LET month_str == Str(Or(RowGet(row, "Month"), Text("")))
  IN IF month_str = "" \/ month_str = "nan" \/ month_str \notin DOMAIN ParsedLabel
     THEN [kind |-> "skip"]
     ELSE
       LET year == ParsedLabel[month_str][1]
           mon == ParsedLabel[month_str][2]
           eid == Str(Or(choose_col(row, <<"ID_cg", "ID_citi", "ID">>), Text("")))
           name == Str(Or(choose_col(row, <<"Name_cg", "Name_citi", "Name">>), Text("")))
           cg_email == Str(Or(choose_col(row, <<"CG Email_cg", "CG Email">>), Text("")))
           citi_email ==
             Str(Or(choose_col(row, <<"Citi Email", "Citi Email_cg", "Citi Email_citi">>),
                    Text("")))
           region_code ==
             Str(Or(choose_col(row, <<"Region Code_cg", "Region Code_citi", "Region Code">>),
                    Text("")))
           region_name ==
             Str(Or(choose_col(row, <<"Region Name_cg", "Region Name_citi", "Region Name">>),
                    Text("")))
           project_name ==
             Str(Or(choose_col(row, <<"Project Name_cg", "Project Name_citi", "Project Name">>),
                    Text("")))
           project_code == choose_project_code(row)
           billing_rate ==
             Float(Or(choose_col(row, <<"Billing Rate_cg", "Billing Rate_citi", "Billing Rate">>),
                      Num(0)))
           total_cg == Float(Or(RowGet(row, "Total Hours(CG)"), Num(0)))
           submitted_cg == Float(Or(RowGet(row, "Submitted Hours(CG)"), Num(0)))
           submitted_on_cg ==
             IF IsNA(RowGet(row, "Submitted On")) THEN None ELSE RowGet(row, "Submitted On")
           total_citi == Float(Or(RowGet(row, "Total Hours(Citi)"), Num(0)))
           submitted_citi == Float(Or(RowGet(row, "Submitted Hours(Citi)"), Num(0)))
           holidays_csv == Str(Or(RowGet(row, "Holidays"), Text("")))
           base_expected ==
             expected_hours_for_month(year, mon, Or(Text(holidays_csv), None))
       IN IF \/ IsRaised(billing_rate) \/ IsRaised(total_cg) \/ IsRaised(submitted_cg)
             \/ IsRaised(total_citi) \/ IsRaised(submitted_citi) \/ IsRaised(base_expected)
          THEN [kind |-> "raise"]
          ELSE
            LET timeoff_hours == approved_timeoff_hours_for_month(timeoff, citi_email, year, mon)
                effective_expected == EffectiveExpected(base_expected, timeoff_hours)
                r == Reconcile(effective_expected, submitted_cg, submitted_citi)
            IN [kind |-> "ok",
                eid |-> eid, name |-> name, cg_email |-> cg_email, citi_email |-> citi_email,
                region_code |-> region_code, region_name |-> region_name,
                project_code |-> project_code, billing_rate |-> billing_rate,
                year |-> year, mon |-> mon,
                entry |->
                  [employee_id |-> Text(eid),
                   month |-> month_str,
                   name |-> Text(name),
                   cg_email |-> Text(cg_email),
                   citi_email |-> citi_email,
                   region_code |-> Text(region_code),
                   region_name |-> Text(region_name),
                   project_name |-> Text(project_name),
                   project_code |-> project_code,
                   billing_rate |-> billing_rate,
                   total_hours_cg |-> ToDb(total_cg),
                   submitted_hours_cg |-> ToDb(r.submitted_cg),
                   submitted_on_cg |->
                     IF Truthy(submitted_on_cg) THEN Text(Str(submitted_on_cg)) ELSE None,
                   status_cg |-> r.status_cg,
                   total_hours_citi |-> ToDb(total_citi),
                   submitted_hours_citi |-> ToDb(r.submitted_citi),
                   holidays |-> Or(Text(holidays_csv), None),
                   status_citi |-> r.status_citi,
                   expected_hours |-> effective_expected,
                   reconciled_hours |-> ToDb(r.reconciled_hours),
                   reconciled_status |-> r.reconciled_status,
                   reminders |-> 0]]

\* the Employee built by upsert_employee_from_row when no row matches (id set on commit)
NewEmployee(a) ==
  [id |-> 0,
   employee_id |-> Or(Text(a.eid), None),
   name |-> Or(Text(a.name), None),
   cg_email |-> Or(Text(a.cg_email), None),
   citi_email |-> Text(a.citi_email),
   region_code |-> Or(Text(a.region_code), None),
   region_name |-> Or(Text(a.region_name), None),
   default_project_code |-> Or(Text(a.project_code), None),
   billing_rate |-> Or(a.billing_rate, Num(0)),
   status |-> Text("Active"),
   start_date |-> Date(DateOf(a.year, a.mon, 1)),
   end_date |-> None]

\* A faulty variant of UpdateEmployeeFromRow that overwrites every field with the
\* incoming value, empty or not (C7 fails).
OverwriteEmployeeFromRow(emp, a) ==
  [emp EXCEPT
     !.employee_id = Text(a.eid),
     !.name = Text(a.name),
     !.cg_email = Text(a.cg_email),
     !.region_code = Text(a.region_code),
     !.region_name = Text(a.region_name),
     !.default_project_code = Text(a.project_code),
     !.billing_rate = a.billing_rate]

\* the else branch of upsert_employee_from_row: the update of the Employee found
UpdateEmployeeFromRow(emp, a) ==
  [emp EXCEPT
     !.employee_id = IF a.eid # "" THEN Text(a.eid) ELSE @,
     !.name = IF a.name # "" THEN Text(a.name) ELSE @,
     !.cg_email = IF a.cg_email # "" THEN Text(a.cg_email) ELSE @,
     !.region_code = IF a.region_code # "" THEN Text(a.region_code) ELSE @,
     !.region_name = IF a.region_name # "" THEN Text(a.region_name) ELSE @,
     !.default_project_code =
        IF a.project_code # "" /\ a.project_code # "UNKNOWN" THEN Text(a.project_code) ELSE @,
     !.billing_rate = IF Truthy(a.billing_rate) THEN a.billing_rate ELSE @]

\* The rows the SELECT of upsert_employee_from_row returns. The session does not
\* autoflush (db.py SessionLocal), so the query sees the committed table only:
\* employees added earlier in the same ingestion are not found.
EmployeeMatches(committed, citi_email) ==
  {i \in 1..Len(committed) : committed[i].citi_email = Text(citi_email)}

\* upsert_employee_from_row(...) applied to the session state
\* s = [emps: the committed employees as loaded and modified in the session,
\*      pending: the employees added and not yet flushed, raised: BOOLEAN]
upsert_employee_from_row(s, committed, a) ==
  IF a.citi_email = "" THEN s
  ELSE LET hits == EmployeeMatches(committed, a.citi_email)
       IN IF Cardinality(hits) > 1 THEN [s EXCEPT !.raised = TRUE]
          ELSE IF hits = {} THEN [s EXCEPT !.pending = Append(@, NewEmployee(a))]
          ELSE LET i == CHOOSE i \in hits : TRUE
               IN [s EXCEPT !.emps[i] = UpdateEmployeeFromRow(@, a)]

\* the loop over the merged rows: s additionally carries adds, the ReconEntry
\* objects added to the session
RECURSIVE MonthlyLoop(_, _, _, _, _)
\* one pass of the loop body for the row values a
MonthlyStep(rows, i, s, committed, timeoff, a) ==
  IF a.kind = "skip" THEN MonthlyLoop(rows, i + 1, s, committed, timeoff)
  ELSE IF a.kind = "raise" THEN [s EXCEPT !.raised = TRUE]
  ELSE LET s1 == upsert_employee_from_row(s, committed, a)
       IN IF s1.raised THEN s1
          ELSE MonthlyLoop(rows, i + 1, [s1 EXCEPT !.adds = Append(@, a.entry)],
                           committed, timeoff)

MonthlyLoop(rows, i, s, committed, timeoff) ==
  IF i > Len(rows) \/ s.raised THEN s
  ELSE MonthlyStep(rows, i, s, committed, timeoff, MonthlyRow(rows[i], timeoff))

\* the ids SQLite gives to rows inserted into a table whose INTEGER PRIMARY KEY is
\* its rowid: one more than the largest id in the table
MaxId(table) ==
  IF Len(table) = 0 THEN 0
  ELSE CHOOSE m \in {table[i].id : i \in 1..Len(table)} :
         \A i \in 1..Len(table) : table[i].id <= m

InsertAll(table, pending) ==
  table \o [i \in 1..Len(pending) |-> [pending[i] EXCEPT !.id = MaxId(table) + i]]

\* A faulty variant of DeleteMonths that empties the table, whatever the months of
\* the file (C11 fails).
DeleteEveryMonth(table, months) == SelectSeq(table, LAMBDA r : FALSE)

\* A faulty variant of DeleteMonths that deletes nothing: with it a second ingestion
\* of a month adds to the records of the first (C1 fails).
DeleteNoMonths(table, months) == table

\* delete(ReconEntry).where(ReconEntry.month == ym) for every ym of months
DeleteMonths(table, months) ==
  SelectSeq(table, LAMBDA r : r.month \notin months)

\* months_in_file: the labels of the merged rows whose Month is not missing
MonthsInFile(rows) ==
  {Str(rows[i]["Month"]) : i \in {j \in 1..Len(rows) : ~IsNA(rows[j]["Month"])}}

-----------------------------------------------------------------------------
(* Workbook ingestion: the daily sheets *)

\* pd.to_datetime(val).date() of a date cell or a string; 0 when it raises
ToDate(val) ==
  CASE val.k = "date" -> val.n
    [] val.k = "str" -> IF val.s \in DOMAIN IsoDate THEN IsoDate[val.s] ELSE 0
    [] val.k = "num" -> 0
    [] val.k = "none" -> 0

\* ym_of(val): the 'YYYY-MM' label of a date cell, "" for None
ym_of(val) ==
  IF ToDate(val) = 0 THEN "" ELSE FormatYm(YearOf(ToDate(val)), MonthOf(ToDate(val)))

\* months_daily
MonthsDaily(df_cg_d, df_ci_d) ==
  ({ym_of(df_cg_d.rows[i]["Date"]) : i \in 1..Len(df_cg_d.rows)}
   \cup {ym_of(df_ci_d.rows[i]["Date"]) : i \in 1..Len(df_ci_d.rows)}) \ {""}

\* delete(CGDaily).where(date >= start, date <= end) for the range of every month
DeleteDailyMonths(table, months) ==
  SelectSeq(table, LAMBDA r : FormatYm(YearOf(r.date), MonthOf(r.date)) \notin months)

\* extract_pcode(row, db_session, citi_email, date_obj); "" when the ReconEntry
\* lookup raises MultipleResultsFound
extract_pcode(row, recon_table, citi_email, date_obj) ==
  LET val == FirstCode(row, <<"Project Code", "ProjectCode", "Proj Code", "Project">>, 1)
      ym == FormatYm(YearOf(date_obj), MonthOf(date_obj))
      hits == {i \in 1..Len(recon_table) :
                 recon_table[i].citi_email = citi_email /\ recon_table[i].month = ym}
  IN IF val # "" THEN val
     ELSE IF Cardinality(hits) > 1 THEN ""
     ELSE IF hits = {} THEN "UNKNOWN"
     ELSE LET rec == recon_table[CHOOSE i \in hits : TRUE].project_code
          IN IF rec # "" THEN rec ELSE "UNKNOWN"

\* the body of the try block of one daily row: the rows to add (none when the row
\* raised and is skipped)
DailyRow(r, recon_table) ==
  IF "Citi Email" \notin DOMAIN r THEN <<>>
  ELSE LET c_email == Str(r["Citi Email"])
           date_val == ToDate(r["Date"])
           hours == Float(Or(IF "Hours" \in DOMAIN r THEN r["Hours"] ELSE Num(0), Num(0)))
       IN IF date_val = 0 THEN <<>>
          ELSE IF extract_pcode(r, recon_table, c_email, date_val) = "" THEN <<>>
          ELSE IF IsRaised(hours) THEN <<>>
          ELSE <<[citi_email |-> c_email,
                  date |-> date_val,
                  hours |-> ToDb(hours),
                  project_code |-> extract_pcode(r, recon_table, c_email, date_val)]>>

RECURSIVE DailyLoop(_, _, _)
DailyLoop(rows, i, recon_table) ==
  IF i > Len(rows) THEN <<>>
  ELSE DailyRow(rows[i], recon_table) \o DailyLoop(rows, i + 1, recon_table)

-----------------------------------------------------------------------------
(* ingest_workbook(content, db) *)

RequiredSheets == {"CG", "CITI", "CG_DAILY", "CITI_DAILY"}

\* The handler as a function of the workbook and the database: [ok, db] where db
\* is what is committed when the request ends. An exception ends the request;
\* get_db closes the session, which rolls back what was not committed.
\* the daily sheets, read after the commit of the monthly part (db1)
IngestDaily(wb, db1) ==
  LET df_cg_d == DataFrame(wb.CG_DAILY)
      df_ci_d == DataFrame(wb.CITI_DAILY)
      months == MonthsDaily(df_cg_d, df_ci_d)
  IN IF "Date" \notin df_cg_d.cols \/ "Date" \notin df_ci_d.cols
     THEN [ok |-> FALSE, db |-> db1]
     ELSE [ok |-> TRUE,
           db |-> [db1 EXCEPT
                     !.cg_daily = DeleteDailyMonths(@, months)
                                  \o DailyLoop(df_cg_d.rows, 1, db1.recon),
                     !.citi_daily = DeleteDailyMonths(@, months)
                                    \o DailyLoop(df_ci_d.rows, 1, db1.recon)]]

\* A faulty variant of MonthlyCommit that gives a new record the reminder counter of
\* the record it replaces (C30 fails).
MonthlyCommitKeepCounters(db, rows, s) ==
  LET old(r) == {i \in 1..Len(db.recon) :
                   db.recon[i].citi_email = r.citi_email /\ db.recon[i].month = r.month}
      kept == [j \in 1..Len(s.adds) |->
                 IF old(s.adds[j]) = {} THEN s.adds[j]
                 ELSE [s.adds[j] EXCEPT
                         !.reminders = db.recon[CHOOSE i \in old(s.adds[j]) : TRUE].reminders]]
  IN [db EXCEPT !.recon = DeleteMonths(@, MonthsInFile(rows)) \o kept,
                !.employees = InsertAll(s.emps, s.pending)]

\* what db.commit() at the end of the monthly part writes: the delete of the
\* months in the file and the rows the loop added, in one transaction
MonthlyCommit(db, rows, s) ==
  [db EXCEPT !.recon = DeleteMonths(@, MonthsInFile(rows)) \o s.adds,
             !.employees = InsertAll(s.emps, s.pending)]

\* the end of the monthly part: s is the session after the loop over rows; an
\* exception in the loop leaves the function before the commit
IngestMonthly(wb, db, rows, s) ==
  IF s.raised THEN [ok |-> FALSE, db |-> db]
  ELSE IngestDaily(wb, MonthlyCommit(db, rows, s))

\* the delete of the months in the file and the loop over the merged rows
IngestMerged(wb, db, rows) ==
  IngestMonthly(wb, db, rows,
                MonthlyLoop(rows, 1,
                            [emps |-> db.employees, pending |-> <<>>, adds |-> <<>>,
                             raised |-> FALSE],
                            db.employees, db.time_off))

ingest_workbook(wb, db) ==
  IF ~(RequiredSheets \subseteq wb.sheets) THEN [ok |-> FALSE, db |-> db]
  ELSE
    LET cg0 == DataFrame(wb.CG)
        citi0 == DataFrame(wb.CITI)
    IN IF "Citi Email" \notin cg0.cols \/ "Citi Email" \notin citi0.cols
       THEN [ok |-> FALSE, db |-> db]
       ELSE IngestMerged(wb, db,
                         Merged(WithColumn(cg0, "Month"), WithColumn(citi0, "Month")))

-----------------------------------------------------------------------------
(* Employees *)

\* the rows a SELECT ... WHERE returns, as indices in table order
Where(table, P(_)) == {i \in 1..Len(table) : P(table[i])}

\* create_employee(payload, db) on the day today: [ok, id, db]. payload is a record
\* whose absent keys are None.
create_employee(payload, today, db) ==
  LET citi_email == Or(Text(Lower(Strip(Str(Or(payload.citi_email, Text("")))))), None)
      employee_id == Or(Text(Strip(Str(Or(payload.employee_id, Text(""))))), None)
      hits == Where(db.employees,
                    LAMBDA e : \/ (~IsNone(citi_email) /\ e.citi_email = citi_email)
                               \/ (~IsNone(employee_id) /\ e.employee_id = employee_id))
      start_date == IF Truthy(payload.start_date) THEN payload.start_date ELSE Date(today)
      end_date == IF Truthy(payload.end_date) THEN payload.end_date ELSE None
  IN IF Cardinality(hits) > 1 THEN [ok |-> FALSE, id |-> 0, db |-> db]
     ELSE
       LET i == IF hits = {} THEN Len(db.employees) + 1 ELSE CHOOSE h \in hits : TRUE
           old == db.employees[i]
           e == IF hits # {}
                THEN [old EXCEPT
                        !.employee_id = Or(employee_id, @),
                        !.name = Or(payload.name, @),
                        !.cg_email = Or(payload.cg_email, @),
                        !.citi_email = Or(citi_email, @),
                        !.region_code = Or(payload.region_code, @),
                        !.region_name = Or(payload.region_name, @),
                        !.default_project_code = Or(payload.default_project_code, @),
                        !.billing_rate =
                           IF ~IsNone(payload.billing_rate)
                           THEN Float(Or(payload.billing_rate, Num(0))) ELSE @,
                        !.status = Or(Or(payload.status, @), Text("Active")),
                        !.start_date = Or(@, start_date),
                        !.end_date = Or(end_date, @)]
                ELSE [id |-> MaxId(db.employees) + 1,
                      employee_id |-> employee_id,
                      name |-> payload.name,
                      cg_email |-> payload.cg_email,
                      citi_email |-> citi_email,
                      region_code |-> payload.region_code,
                      region_name |-> payload.region_name,
                      default_project_code |-> payload.default_project_code,
                      billing_rate |-> Float(Or(payload.billing_rate, Num(0))),
                      status |-> Or(payload.status, Text("Active")),
                      start_date |-> start_date,
                      end_date |-> end_date]
           db1 == [db EXCEPT !.employees =
                     IF hits = {} THEN Append(@, e) ELSE [@ EXCEPT ![i] = e]]
           ym == FormatYm(YearOf(today), MonthOf(today))
           exists_recon ==
             Where(db1.recon, LAMBDA r : r.month = ym /\ r.citi_email = Str(e.citi_email))
           expected == expected_hours_for_month(YearOf(today), MonthOf(today), None)
           skeleton ==
             [employee_id |-> e.employee_id,
              month |-> ym,
              name |-> e.name,
              cg_email |-> e.cg_email,
              citi_email |-> Str(e.citi_email),
              region_code |-> e.region_code,
              region_name |-> e.region_name,
              project_name |-> None,
              project_code |-> Str(Or(e.default_project_code, Text("UNKNOWN"))),
              billing_rate |-> Or(e.billing_rate, Num(0)),
              total_hours_cg |-> expected,
              submitted_hours_cg |-> Num(0),
              submitted_on_cg |-> None,
              status_cg |-> "Not Completed",
              total_hours_citi |-> expected,
              submitted_hours_citi |-> Num(0),
              holidays |-> None,
              status_citi |-> "Not Completed",
              expected_hours |-> expected,
              reconciled_hours |-> Num(0),
              reconciled_status |-> "Not Completed",
              reminders |-> 0]
       IN IF IsRaised(e.billing_rate) THEN [ok |-> FALSE, id |-> 0, db |-> db]
          ELSE IF ~Truthy(e.citi_email) THEN [ok |-> TRUE, id |-> e.id, db |-> db1]
          ELSE IF Cardinality(exists_recon) > 1 THEN [ok |-> FALSE, id |-> 0, db |-> db1]
          ELSE IF exists_recon # {} THEN [ok |-> TRUE, id |-> e.id, db |-> db1]
          ELSE [ok |-> TRUE, id |-> e.id, db |-> [db1 EXCEPT !.recon = Append(@, skeleton)]]

\* db.get(Employee, emp_id): the index of the row, 0 when there is none
GetById(table, id) ==
  IF \E i \in 1..Len(table) : table[i].id = id
  THEN CHOOSE i \in 1..Len(table) : table[i].id = id
  ELSE 0

\* update_employee(emp_id, payload, db); payload is a function from the keys sent
update_employee(emp_id, payload, db) ==
  LET i == GetById(db.employees, emp_id)
      copied == {"employee_id", "name", "cg_email", "citi_email", "region_code",
                 "region_name", "default_project_code", "status"}
      e == db.employees[i]
      e1 == [f \in DOMAIN e |->
               IF f \in copied /\ f \in DOMAIN payload THEN payload[f]
               ELSE IF f = "billing_rate" /\ f \in DOMAIN payload
               THEN Float(Or(payload[f], Num(0)))
               ELSE IF f \in {"start_date", "end_date"} /\ f \in DOMAIN payload
               THEN (IF Truthy(payload[f]) THEN Date(IsoDate[Str(payload[f])]) ELSE None)
               ELSE e[f]]
  IN IF i = 0 THEN [ok |-> FALSE, db |-> db]
     ELSE [ok |-> TRUE, db |-> [db EXCEPT !.employees[i] = e1]]

\* onboard_employee(emp_id, db) on the day today
onboard_employee(emp_id, today, db) ==
  LET i == GetById(db.employees, emp_id)
  IN IF i = 0 THEN [ok |-> FALSE, db |-> db]
     ELSE [ok |-> TRUE,
           db |-> [db EXCEPT !.employees[i] =
                     [@ EXCEPT !.status = Text("Active"),
                               !.start_date = IF Truthy(@) THEN @ ELSE Date(today),
                               !.end_date = None]]]

\* deboard_employee(emp_id, db) on the day today
\* A faulty variant of deboard_employee that deletes the row (C8 fails).
DeboardByDelete(emp_id, today, db) ==
  IF GetById(db.employees, emp_id) = 0 THEN [ok |-> FALSE, db |-> db]
  ELSE [ok |-> TRUE,
        db |-> [db EXCEPT !.employees = SelectSeq(@, LAMBDA e : e.id # emp_id)]]

deboard_employee(emp_id, today, db) ==
  LET i == GetById(db.employees, emp_id)
  IN IF i = 0 THEN [ok |-> FALSE, db |-> db]
     ELSE [ok |-> TRUE,
           db |-> [db EXCEPT !.employees[i] =
                     [@ EXCEPT !.status = Text("Inactive"), !.end_date = Date(today)]]]

\* the key of deduplicate_employees; "" stands for the per-row key "__tmp_<id>"
DedupKey(e) ==
  LET by_email == Lower(Str(Or(e.citi_email, Text(""))))
  IN IF by_email # "" THEN by_email ELSE Str(Or(e.employee_id, Text("")))

\* deduplicate_employees(db): [removed, db]
deduplicate_employees(db) ==
  LET table == db.employees
      to_delete == {i \in 1..Len(table) :
                      /\ DedupKey(table[i]) # ""
                      /\ \E j \in 1..(i - 1) : DedupKey(table[j]) = DedupKey(table[i])}
      ids == {table[i].id : i \in to_delete}
  IN [removed |-> Cardinality(to_delete),
      db |-> [db EXCEPT !.employees = SelectSeq(@, LAMBDA e : e.id \notin ids)]]

-----------------------------------------------------------------------------
(* Reminders *)

\* A faulty variant of _trigger_reminders_for_month that, without targets, counts
\* a reminder on every record of the month, compliant or not (C15 fails).
TriggerWholeMonth(db, ym, employee_ids) ==
  LET rows == Where(db.recon, LAMBDA r : r.month = ym)
  IN [count |-> Cardinality(rows),
      db |-> [db EXCEPT !.recon =
                [i \in 1..Len(@) |->
                   IF i \in rows THEN [@[i] EXCEPT !.reminders = @ + 1] ELSE @[i]]]]

\* A faulty variant of _trigger_reminders_for_month that marks a record as reminded
\* instead of counting: a second call changes nothing (C17 fails).
TriggerOnce(db, ym, employee_ids) ==
  LET rows == Where(db.recon, LAMBDA r : r.month = ym /\ r.reconciled_status # "Completed")
  IN [count |-> Cardinality(rows),
      db |-> [db EXCEPT !.recon =
                [i \in 1..Len(@) |->
                   IF i \in rows THEN [@[i] EXCEPT !.reminders = 1] ELSE @[i]]]]

\* _trigger_reminders_for_month(db, ym, employee_ids): [count, db]. employee_ids is
\* [given, ids]: given is FALSE for None, ids the set of the list's strings.
trigger_reminders_for_month(db, ym, employee_ids) ==
  LET in_month == Where(db.recon, LAMBDA r : r.month = ym)
      rows == IF employee_ids.given /\ employee_ids.ids # {}
              THEN {i \in in_month :
                      \/ (db.recon[i].employee_id.k = "str"
                          /\ db.recon[i].employee_id.s \in employee_ids.ids)
                      \/ db.recon[i].citi_email \in employee_ids.ids}
              ELSE {i \in in_month :
                      db.recon[i].reconciled_status \in {"Partial", "Mismatch", "Not Completed"}}
  IN [count |-> Cardinality(rows),
      db |-> [db EXCEPT !.recon =
                [i \in 1..Len(@) |->
                   IF i \in rows THEN [@[i] EXCEPT !.reminders = @ + 1] ELSE @[i]]]]

\* send_reminder(payload, db)
send_reminder(year, month, employee_ids, db) ==
  trigger_reminders_for_month(db, FormatYm(year, month), employee_ids)

-----------------------------------------------------------------------------
(* Time off *)

\* str.title() of the status strings sent in the model
Title(s) ==
  CASE s = "approved" -> "Approved"
    [] s = "REJECTED" -> "Rejected"
    [] s = "pending" -> "Pending"
    [] OTHER -> s

\* create_timeoff(payload, db): [ok, db]; payload is [citi_email, start_date,
\* end_date], each a string cell or None
create_timeoff(payload, db) ==
  LET citi_email == Lower(Strip(Str(Or(payload.citi_email, Text("")))))
      start_str == payload.start_date
      end_str == payload.end_date
      hits == Where(db.employees, LAMBDA e : e.citi_email = Text(citi_email))
  IN IF citi_email = "" THEN [ok |-> FALSE, db |-> db]
     ELSE IF ~Truthy(start_str) \/ ~Truthy(end_str) THEN [ok |-> FALSE, db |-> db]
     ELSE IF Str(start_str) \notin DOMAIN IsoDate \/ Str(end_str) \notin DOMAIN IsoDate
     THEN [ok |-> FALSE, db |-> db]
     ELSE IF Cardinality(hits) > 1 THEN [ok |-> FALSE, db |-> db]
     ELSE
       LET start_date == IsoDate[Str(start_str)]
           end_date == IsoDate[Str(end_str)]
           t == [id |-> MaxId(db.time_off) + 1,
                 \* Employee.id, an integer key
                 employee_id |->
                   IF hits = {} THEN None
                   ELSE [k |-> "num", n |-> db.employees[CHOOSE h \in hits : TRUE].id, s |-> ""],
                 citi_email |-> citi_email,
                 start_date |-> start_date,
                 end_date |-> end_date,
                 days |-> working_days_between(start_date, end_date),
                 leave_type |-> "Planned",
                 reason |-> "",
                 status |-> "Pending"]
       IN [ok |-> TRUE, db |-> [db EXCEPT !.time_off = Append(@, t)]]

\* A faulty variant of update_timeoff_status that stores any status it is sent,
\* without the check against the three allowed values (C21 fails).
UpdateStatusUnchecked(timeoff_id, status, db) ==
  LET status_new == Title(Strip(Str(Or(status, Text("")))))
      i == GetById(db.time_off, timeoff_id)
  IN IF i = 0 THEN [ok |-> FALSE, db |-> db]
     ELSE [ok |-> TRUE, db |-> [db EXCEPT !.time_off[i].status = status_new]]

\* update_timeoff_status(timeoff_id, payload, db): [ok, db]
update_timeoff_status(timeoff_id, status, db) ==
  LET status_new == Title(Strip(Str(Or(status, Text("")))))
      i == GetById(db.time_off, timeoff_id)
  IN IF status_new \notin {"Pending", "Approved", "Rejected"} THEN [ok |-> FALSE, db |-> db]
     ELSE IF i = 0 THEN [ok |-> FALSE, db |-> db]
     ELSE [ok |-> TRUE, db |-> [db EXCEPT !.time_off[i].status = status_new]]

-----------------------------------------------------------------------------
(* Grid upload *)

\* int(c) of the headers c for which str(c).isdigit() holds
DayNumber == ("0" :> 0) @@ ("1" :> 1) @@ ("2" :> 2) @@ ("31" :> 31) @@ ("32" :> 32)

\* the cells of one grid row, in column order, for the day columns from j on:
\* the daily rows to add; a row with date 0 marks a cell whose float() raised
RECURSIVE GridRow(_, _, _, _, _)
GridRow(row, columns, j, y, m) ==
  IF j > Len(columns) THEN <<>>
  ELSE
    LET dcol == Strip(columns[j])
        rest == GridRow(row, columns, j + 1, y, m)
        is_day == dcol \in DOMAIN DayNumber /\ DayNumber[dcol] \in 1..31
    IN IF ~is_day THEN rest
       ELSE IF DayNumber[dcol] > DaysInMonth(y, m) THEN rest
       ELSE LET hrs == Float(Or(RowGet(row, dcol), Num(0)))
                email == Str(row["Citi Email"])
                pcode == Str(Or(row["Project Code"], Text("UNKNOWN")))
            IN IF IsRaised(hrs)
               THEN <<[citi_email |-> email, date |-> 0, hours |-> None,
                       project_code |-> pcode]>> \o rest
               ELSE IF Le(hrs, Num(0)) THEN rest
               ELSE <<[citi_email |-> email, date |-> DateOf(y, m, DayNumber[dcol]),
                       hours |-> ToDb(hrs), project_code |-> pcode]>> \o rest

RECURSIVE GridRows(_, _, _, _, _)
GridRows(rows, columns, i, y, m) ==
  IF i > Len(rows) THEN <<>>
  ELSE GridRow(rows[i], columns, 1, y, m) \o GridRows(rows, columns, i + 1, y, m)

\* delete(CGDaily).where(CGDaily.date >= start, CGDaily.date <= end)
DeleteDailyRange(table, start, end) ==
  SelectSeq(table, LAMBDA r : ~(r.date >= start /\ r.date <= end))

\* upload_monthly_grid(system, month, file, db): [ok, db]
upload_monthly_grid(system, month, grid, db) ==
  LET df == DataFrame(grid)
  IN IF system \notin {"CG", "CITI"} THEN [ok |-> FALSE, db |-> db]
     ELSE IF "Citi Email" \notin df.cols \/ "Project Code" \notin df.cols
     THEN [ok |-> FALSE, db |-> db]
     ELSE IF month \notin DOMAIN ParsedLabel \/ ParsedLabel[month][2] \notin 1..12
     THEN [ok |-> FALSE, db |-> db]
     ELSE IF ~\E j \in 1..Len(grid.columns) :
                /\ Strip(grid.columns[j]) \in DOMAIN DayNumber
                /\ DayNumber[Strip(grid.columns[j])] \in 1..31
     THEN [ok |-> FALSE, db |-> db]
     ELSE
       LET y == ParsedLabel[month][1]
           m == ParsedLabel[month][2]
           start == DateOf(y, m, 1)
           end == DateOf(y, m, DaysInMonth(y, m))
           adds == GridRows(df.rows, grid.columns, 1, y, m)
       IN IF \E i \in 1..Len(adds) : adds[i].date = 0 THEN [ok |-> FALSE, db |-> db]
          ELSE IF system = "CG"
          THEN [ok |-> TRUE,
                db |-> [db EXCEPT !.cg_daily = DeleteDailyRange(@, start, end) \o adds]]
          ELSE [ok |-> TRUE,
                db |-> [db EXCEPT !.citi_daily = DeleteDailyRange(@, start, end) \o adds]]

-----------------------------------------------------------------------------
(* The workbooks uploaded in the model *)

CgColumns ==
  <<"ID", "Name", "CG Email", "Citi Email", "Total Hours(CG)", "Submitted Hours(CG)",
    "Submitted On", "Billing Rate", "Region Code", "Region Name", "Project Name",
    "Project Code", "Month">>

CitiColumns ==
  <<"Citi Email", "Total Hours(Citi)", "Submitted Hours(Citi)", "Holidays",
    "Project Code", "Month">>

DailyColumns == <<"Citi Email", "Date", "Hours", "Project Code">>

Alex ==
  [id |-> Text("100"), name |-> Text("Alex"), cg_email |-> Text("a@cg"),
   citi_email |-> Text("a@x"), rate |-> Num(7500), region_code |-> Text("EU"),
   region_name |-> Text("Europe"), project_name |-> Text("Payments"),
   project_code |-> Text("P100")]

\* Alex with every optional cell left empty
AlexBlank ==
  [id |-> NaN, name |-> NaN, cg_email |-> NaN, citi_email |-> Text("a@x"),
   rate |-> Num(0), region_code |-> NaN, region_name |-> NaN, project_name |-> NaN,
   project_code |-> Text(" ")]

\* Alex under new master data
AlexMoved ==
  [id |-> Text("200"), name |-> Text("Alexa"), cg_email |-> Text("a2@cg"),
   citi_email |-> Text("a@x"), rate |-> Num(9000), region_code |-> Text("NA"),
   region_name |-> Text("North America"), project_name |-> Text("Risk"),
   project_code |-> Text(" P200 ")]

AlexUpper == [Alex EXCEPT !.citi_email = Text("A@x")]

Priya ==
  [id |-> Text("101"), name |-> Text("Priya"), cg_email |-> Text("b@cg"),
   citi_email |-> Text("b@x"), rate |-> Num(8000), region_code |-> Text("NA"),
   region_name |-> Text("North America"), project_name |-> Text("Risk"),
   project_code |-> Text("P200")]

Nobody == [Priya EXCEPT !.citi_email = NaN]

CgRow(p, month, submitted) ==
  <<p.id, p.name, p.cg_email, p.citi_email, Num(18400), submitted, Text("2025-01-18"),
    p.rate, p.region_code, p.region_name, p.project_name, p.project_code, month>>

CitiRow(p, month, submitted, holidays) ==
  <<p.citi_email, Num(18400), submitted, holidays, p.project_code, month>>

Jan == Text("2025-01")
Feb == Text("2025-02")

CgSheet(rows) == [columns |-> CgColumns, rows |-> rows]
CitiSheet(rows) == [columns |-> CitiColumns, rows |-> rows]
DailySheet(rows) == [columns |-> DailyColumns, rows |-> rows]

\* one day of Alex, as in the generated sample workbook
DailyAlex == DailySheet(<< <<Text("a@x"), Date(20250102), Num(800), Text("P100")>> >>)

Book(cg, citi, cg_daily_sheet, citi_daily_sheet) ==
  [sheets |-> RequiredSheets, CG |-> cg, CITI |-> citi,
   CG_DAILY |-> cg_daily_sheet, CITI_DAILY |-> citi_daily_sheet]

Monthly(cg_rows, citi_rows) ==
  Book(CgSheet(cg_rows), CitiSheet(citi_rows), DailyAlex, DailyAlex)

Workbook ==
  \* both sources complete for January
  ("complete" :>
     Monthly(<<CgRow(Alex, Jan, Num(18400))>>, <<CitiRow(Alex, Jan, Num(18400), NaN)>>)) @@
  \* a mismatch, and a worker the client feed does not list
  ("mixed" :>
     Monthly(<<CgRow(Alex, Jan, Num(18400)), CgRow(Priya, Jan, Num(16800))>>,
             <<CitiRow(Alex, Jan, Num(16800), NaN)>>)) @@
  \* the same worker under two months
  ("two_months" :>
     Monthly(<<CgRow(Alex, Jan, Num(18400)), CgRow(Alex, Feb, Num(10000))>>,
             <<CitiRow(Alex, Jan, Num(18400), NaN), CitiRow(Alex, Feb, Num(10000), NaN)>>)) @@
  \* a repeated (Citi Email, Month) pair in the vendor sheet
  ("duplicates" :>
     Monthly(<<CgRow(Alex, Jan, Num(10000)), CgRow(Alex, Jan, Num(18400))>>,
             <<CitiRow(Alex, Jan, Num(18400), NaN)>>)) @@
  \* an unparseable month label beside a well-formed row
  ("bad_label" :>
     Monthly(<<CgRow(Alex, Text("bad"), Num(18400)), CgRow(Priya, Jan, Num(18400))>>,
             <<CitiRow(Priya, Jan, Num(18400), NaN)>>)) @@
  \* an out-of-range month label beside a well-formed row
  ("month_13" :>
     Monthly(<<CgRow(Alex, Text("2025-13"), Num(18400)), CgRow(Priya, Jan, Num(18400))>>,
             <<CitiRow(Priya, Jan, Num(18400), NaN)>>)) @@
  \* non-numeric hours beside a well-formed row
  ("bad_hours" :>
     Monthly(<<CgRow(Alex, Jan, Text("abc")), CgRow(Priya, Jan, Num(18400))>>,
             <<CitiRow(Alex, Jan, Num(18400), NaN), CitiRow(Priya, Jan, Num(18400), NaN)>>)) @@
  \* the CITI_DAILY sheet is missing
  ("no_citi_daily" :>
     [Monthly(<<CgRow(Alex, Feb, Num(16000))>>, <<CitiRow(Alex, Feb, Num(16000), NaN)>>)
        EXCEPT !.sheets = RequiredSheets \ {"CITI_DAILY"}]) @@
  \* the CITI sheet has no Citi Email column
  ("no_email_column" :>
     Book(CgSheet(<<CgRow(Alex, Feb, Num(16000))>>),
          [columns |-> <<"Email", "Month">>, rows |-> << <<Text("a@x"), Feb>> >>],
          DailyAlex, DailyAlex)) @@
  \* the CG_DAILY sheet has no Date column
  ("no_date_column" :>
     Book(CgSheet(<<CgRow(Alex, Feb, Num(16000))>>),
          CitiSheet(<<CitiRow(Alex, Feb, Num(16000), NaN)>>),
          [columns |-> <<"Citi Email", "Hours">>, rows |-> << <<Text("a@x"), Num(800)>> >>],
          DailyAlex)) @@
  \* empty master data and 0.01 hours on both sides
  ("blank_fields" :>
     Monthly(<<CgRow(AlexBlank, Jan, Num(1))>>, <<CitiRow(AlexBlank, Jan, Num(1), NaN)>>)) @@
  \* new master data, hours above the calendar, two holidays (one on a Saturday)
  ("moved" :>
     Monthly(<<CgRow(AlexMoved, Jan, Num(19000))>>,
             <<CitiRow(AlexMoved, Jan, Num(19000), Text("2025-01-01,2025-01-04"))>>)) @@
  \* a worker only the client feed lists, and a row without e-mail
  ("citi_only" :>
     Monthly(<<CgRow(Nobody, Feb, Num(0))>>, <<CitiRow(Priya, Feb, Num(16000), NaN)>>)) @@
  \* daily sheets with a bad date, non-numeric hours, a repeated day, no project code
  ("bad_daily" :>
     Book(CgSheet(<<CgRow(Priya, Jan, Num(18400))>>),
          CitiSheet(<<CitiRow(Priya, Jan, Num(18300), NaN)>>),
          DailySheet(<< <<Text("b@x"), Date(20250102), Num(800), NaN>>,
                        <<Text("b@x"), Text("not a date"), Num(800), Text("P200")>>,
                        <<Text("b@x"), Date(20250103), Text("abc"), Text("P200")>>,
                        <<Text("b@x"), Text("2025-01-15"), Text("7.5"), Text("P200")>>,
                        <<Text("b@x"), Date(20250102), Num(400), Text("P200")>> >>),
          DailySheet(<< <<Text("c@x"), Date(20250203), NaN, NaN>> >>))) @@
  \* the e-mail in upper case
  ("upper" :>
     Monthly(<<CgRow(AlexUpper, Jan, Num(18400))>>, <<CitiRow(AlexUpper, Jan, Num(0), NaN)>>))

WorkbookNames == DOMAIN Workbook

-----------------------------------------------------------------------------
(* State *)

DB ==
  [recon |-> recon, employees |-> employees, cg_daily |-> cg_daily,
   citi_daily |-> citi_daily, time_off |-> time_off]

Commit(db) ==
  /\ recon' = db.recon
  /\ employees' = db.employees
  /\ cg_daily' = db.cg_daily
  /\ citi_daily' = db.citi_daily
  /\ time_off' = db.time_off

\* calc holds the arguments and the result of a computation checked on its own;
\* it stays NoCalc while requests are served
NoResult == [status |-> ""]
NoCalc ==
  [total |-> None, submitted_cg |-> None, submitted_citi |-> None, step |-> "none",
   out |-> NoResult]

\* sessions holds the requests served at the same time, each with its own
\* Session (get_db) on the one SQLite file; it stays NoSessions while requests
\* are served one after the other
NoSessions == [kind |-> "none"]

Done(op, arg, id, ok, n) == last' = [op |-> op, arg |-> arg, id |-> id, ok |-> ok, n |-> n]

Init ==
  /\ recon = <<>>
  /\ employees = <<>>
  /\ cg_daily = <<>>
  /\ citi_daily = <<>>
  /\ time_off = <<>>
  /\ last = [op |-> "start", arg |-> "", id |-> 0, ok |-> TRUE, n |-> 0]
  /\ ops = 0
  /\ calc = NoCalc
  /\ sessions = NoSessions

-----------------------------------------------------------------------------
(* Requests sent in the model *)

\* datetime.date.today() at the time of a request
Todays == {20250120, 20250214}

NoPayload ==
  [citi_email |-> None, employee_id |-> None, name |-> None, cg_email |-> None,
   region_code |-> None, region_name |-> None, default_project_code |-> None,
   billing_rate |-> None, status |-> None, start_date |-> None, end_date |-> None]

EmployeePayload ==
  \* onboarding by e-mail, typed in upper case
  ("by_email" :> [NoPayload EXCEPT !.citi_email = Text("A@x"), !.name = Text("Alex A"),
                                   !.billing_rate = Num(7000)]) @@
  \* onboarding by business id only
  ("by_id" :> [NoPayload EXCEPT !.employee_id = Text("101"), !.status = Text("Inactive")])

UpdatePayload ==
  ("rename" :> (("citi_email" :> Text("b@x")) @@ ("name" :> None))) @@
  ("rate" :> (("billing_rate" :> None) @@ ("end_date" :> Text("2025-02-03"))))

ReminderTargets ==
  ("none" :> [given |-> FALSE, ids |-> {}]) @@
  ("empty" :> [given |-> TRUE, ids |-> {}]) @@
  ("ids" :> [given |-> TRUE, ids |-> {"100", "b@x"}])

TimeoffPayload ==
  ("three_days" :> [citi_email |-> Text("A@x"), start_date |-> Text("2025-01-13"),
                    end_date |-> Text("2025-01-15")]) @@
  ("reversed" :> [citi_email |-> Text("b@x"), start_date |-> Text("2025-02-03"),
                  end_date |-> Text("2025-01-30")]) @@
  ("no_dates" :> [citi_email |-> Text("b@x"), start_date |-> None, end_date |-> None])

TimeoffStatuses == {"approved", "REJECTED", "on hold"}

Grid ==
  ("days" :>
     [columns |-> <<"Citi Email ", "Project Code", "1", "2", "31", "32">>,
      rows |-> << <<Text("a@x"), Text("P100"), Num(800), Num(0), Num(400), Num(800)>>,
                  <<Text("a@x"), NaN, Num(400), Num(-100), NaN, Num(800)>> >>]) @@
  ("text" :>
     [columns |-> <<"Citi Email", "Project Code", "1">>,
      rows |-> << <<Text("b@x"), Text("P200"), Text("x")>> >>]) @@
  ("no_days" :>
     [columns |-> <<"Citi Email", "Project Code", "0">>,
      rows |-> << <<Text("b@x"), Text("P200"), Num(800)>> >>])

GridUploads ==
  {<<"CG", "2025-01", "days">>, <<"CITI", "2025-02", "days">>, <<"CG", "2025-13", "days">>,
   <<"SAP", "2025-01", "days">>, <<"CITI", "2025-01", "text">>, <<"CG", "2025-01", "no_days">>}

-----------------------------------------------------------------------------
(* Requests. Each request runs in its own session and ends before the next. *)

\* POST /api/upload
Upload(name) ==
  LET r == ingest_workbook(Workbook[name], DB)
  IN /\ ops < MaxOps
     /\ Commit(r.db)
     /\ Done("upload", name, 0, r.ok, 0)
     /\ ops' = ops + 1
     /\ UNCHANGED <<calc, sessions>>

\* POST /api/admin/upload-monthly-grid
UploadGrid(g) ==
  LET r == upload_monthly_grid(g[1], g[2], Grid[g[3]], DB)
  IN /\ ops < MaxOps
     /\ Commit(r.db)
     /\ Done("grid", g[3], 0, r.ok, 0)
     /\ ops' = ops + 1
     /\ UNCHANGED <<calc, sessions>>

\* POST /api/employees
CreateEmployee(name, today) ==
  LET r == create_employee(EmployeePayload[name], today, DB)
  IN /\ ops < MaxOps
     /\ Commit(r.db)
     /\ Done("create_employee", name, r.id, r.ok, 0)
     /\ ops' = ops + 1
     /\ UNCHANGED <<calc, sessions>>

\* PUT /api/employees/{emp_id}
UpdateEmployee(emp_id, name) ==
  LET r == update_employee(emp_id, UpdatePayload[name], DB)
  IN /\ ops < MaxOps
     /\ Commit(r.db)
     /\ Done("update_employee", name, emp_id, r.ok, 0)
     /\ ops' = ops + 1
     /\ UNCHANGED <<calc, sessions>>

\* POST /api/employees/{emp_id}/onboard
OnboardEmployee(emp_id, today) ==
  LET r == onboard_employee(emp_id, today, DB)
  IN /\ ops < MaxOps
     /\ Commit(r.db)
     /\ Done("onboard", "", emp_id, r.ok, 0)
     /\ ops' = ops + 1
     /\ UNCHANGED <<calc, sessions>>

\* POST /api/employees/{emp_id}/deboard
DeboardEmployee(emp_id, today) ==
  LET r == deboard_employee(emp_id, today, DB)
  IN /\ ops < MaxOps
     /\ Commit(r.db)
     /\ Done("deboard", "", emp_id, r.ok, 0)
     /\ ops' = ops + 1
     /\ UNCHANGED <<calc, sessions>>

\* POST /api/employees/deduplicate
DeduplicateEmployees ==
  LET r == deduplicate_employees(DB)
  IN /\ ops < MaxOps
     /\ Commit(r.db)
     /\ Done("deduplicate", "", 0, TRUE, r.removed)
     /\ ops' = ops + 1
     /\ UNCHANGED <<calc, sessions>>

\* POST /api/send-reminder
SendReminder(year, month, targets) ==
  LET r == send_reminder(year, month, ReminderTargets[targets], DB)
  IN /\ ops < MaxOps
     /\ Commit(r.db)
     /\ Done("send_reminder", targets, month, TRUE, r.count)
     /\ ops' = ops + 1
     /\ UNCHANGED <<calc, sessions>>

\* POST /api/timeoff
CreateTimeoff(name) ==
  LET r == create_timeoff(TimeoffPayload[name], DB)
  IN /\ ops < MaxOps
     /\ Commit(r.db)
     /\ Done("create_timeoff", name, 0, r.ok, 0)
     /\ ops' = ops + 1
     /\ UNCHANGED <<calc, sessions>>

\* POST /api/timeoff/{timeoff_id}/status
UpdateTimeoffStatus(timeoff_id, status) ==
  LET r == update_timeoff_status(timeoff_id, Text(status), DB)
  IN /\ ops < MaxOps
     /\ Commit(r.db)
     /\ Done("timeoff_status", status, timeoff_id, r.ok, 0)
     /\ ops' = ops + 1
     /\ UNCHANGED <<calc, sessions>>

\* ids a client can name: those of the table and one that does not exist
Ids(table) == 1..(MaxId(table) + 1)

Next ==
  \/ \E name \in WorkbookNames : Upload(name)
  \/ \E g \in GridUploads : UploadGrid(g)
  \/ \E name \in DOMAIN EmployeePayload, today \in Todays : CreateEmployee(name, today)
  \/ \E emp_id \in Ids(employees), name \in DOMAIN UpdatePayload : UpdateEmployee(emp_id, name)
  \/ \E emp_id \in Ids(employees), today \in Todays : OnboardEmployee(emp_id, today)
  \/ \E emp_id \in Ids(employees), today \in Todays : DeboardEmployee(emp_id, today)
  \/ DeduplicateEmployees
  \/ \E month \in 1..2, targets \in DOMAIN ReminderTargets : SendReminder(2025, month, targets)
  \/ \E name \in DOMAIN TimeoffPayload : CreateTimeoff(name)
  \/ \E timeoff_id \in Ids(time_off), status \in TimeoffStatuses :
       UpdateTimeoffStatus(timeoff_id, status)

Spec == Init /\ [][Next]_vars

-----------------------------------------------------------------------------
(* The status computations on their own: status_from and the status part of the
   loop of ingest_workbook, applied to figures in hundredths of an hour *)

\* effective expected hours: none, February 2025, January 2025
Totals == {Num(0), Num(16000), Num(18400)}

\* submitted hours: a source that does not list the worker (NaN after the outer
\* merge), a negative entry, nothing, 0.01, 0.02, and figures around the totals
Submitteds ==
  {NaN, Num(-100), Num(0), Num(1), Num(2), Num(15999), Num(16000), Num(16001),
   Num(18400)}

InitCalc ==
  /\ recon = <<>>
  /\ employees = <<>>
  /\ cg_daily = <<>>
  /\ citi_daily = <<>>
  /\ time_off = <<>>
  /\ last = [op |-> "start", arg |-> "", id |-> 0, ok |-> TRUE, n |-> 0]
  /\ ops = 0
  /\ sessions = NoSessions
  /\ \E total \in Totals, submitted_cg \in Submitteds, submitted_citi \in Submitteds :
       calc = [total |-> total, submitted_cg |-> submitted_cg,
               submitted_citi |-> submitted_citi, step |-> "input", out |-> NoResult]

\* status_from(total, submitted)
StatusFrom ==
  /\ calc.step = "input"
  /\ calc' = [calc EXCEPT !.step = "status_from",
                          !.out = [status |-> status_from(calc.total, calc.submitted_cg)]]
  /\ UNCHANGED <<recon, employees, cg_daily, citi_daily, time_off, last, ops, sessions>>

\* the statuses and reconciled hours of one merged row
ReconcileRow ==
  /\ calc.step = "input"
  /\ calc' = [calc EXCEPT !.step = "reconcile",
                          !.out = Reconcile(calc.total, calc.submitted_cg,
                                            calc.submitted_citi)]
  /\ UNCHANGED <<recon, employees, cg_daily, citi_daily, time_off, last, ops, sessions>>

NextCalc == StatusFrom \/ ReconcileRow

SpecCalc == InitCalc /\ [][NextCalc]_vars
-----------------------------------------------------------------------------
(* Properties of the stores *)

\* numeric comparison of two stored figures: false when either is NULL
DbLe(x, y) == IsNum(x) /\ IsNum(y) /\ x.n <= y.n

\* C1: after any sequence of requests the ReconEntry table holds at most one
\* record for each (citi_email, month) pair.
C1_OneEntryPerEmailMonth ==
  \A i, j \in 1..Len(recon) :
    (recon[i].citi_email = recon[j].citi_email /\ recon[i].month = recon[j].month)
      => i = j

\* C1 case: a month that already held records (one of them an onboarding skeleton
\* or an earlier ingestion) was ingested again from a sheet that repeats a
\* (Citi Email, Month) pair, next to a record of another month.
C1_Reingested ==
  /\ last.op = "upload" /\ last.arg = "duplicates" /\ last.ok /\ ops = 3
  /\ \E i \in 1..Len(recon) : recon[i].citi_email = "a@x" /\ recon[i].month = "2025-01"
  /\ \E i \in 1..Len(recon) : recon[i].citi_email = "a@x" /\ recon[i].month = "2025-02"

\* the ReconEntry records as a set (business attributes only: the model keeps
\* neither surrogate ids nor timestamps)
Records(table) == {table[i] : i \in 1..Len(table)}

\* C2: ingesting the same workbook twice in a row succeeds both times and leaves
\* the same set of ReconEntry records after the second ingestion as after the first.
C2_ReingestIdempotent ==
  [][(last.op = "upload" /\ last.ok /\ last'.op = "upload" /\ last'.arg = last.arg)
       => (last'.ok /\ Records(recon') = Records(recon))]_vars

\* C3: every ReconEntry satisfies reconciled_hours <= submitted_hours_cg,
\* reconciled_hours <= submitted_hours_citi and reconciled_hours <= expected_hours.
C3_ReconciledWithinSubmitted ==
  \A i \in 1..Len(recon) :
    /\ DbLe(recon[i].reconciled_hours, recon[i].submitted_hours_cg)
    /\ DbLe(recon[i].reconciled_hours, recon[i].submitted_hours_citi)
    /\ DbLe(recon[i].reconciled_hours, recon[i].expected_hours)

-----------------------------------------------------------------------------
(* Properties of the status computations *)

C5_StatusFromCases ==
  calc.step = "status_from" =>
    LET e == calc.total
        sub == calc.submitted_cg
        positive == IsNum(sub) /\ sub.n > 0
    IN /\ (calc.out.status = "Not Completed") <=> DbLe(sub, Num(0))
       /\ (calc.out.status = "Partial") <=> (positive /\ sub.n < e.n)
       /\ (calc.out.status = "Completed") <=> (positive /\ sub.n >= e.n)

-----------------------------------------------------------------------------
(* Properties of the Employee table *)

\* no two Employee rows with the same citi_email
OneProfilePerEmail(table) ==
  \A i, j \in 1..Len(table) :
    (table[i].citi_email = table[j].citi_email /\ ~IsNone(table[i].citi_email)) => i = j

\* C6: ingestion creates a profile only when the client e-mail has none: an
\* ingestion into a table with at most one profile per e-mail (the empty table
\* included) leaves at most one profile per e-mail.
C6_OneProfilePerEmail ==
  [][(last'.op = "upload" /\ OneProfilePerEmail(employees))
       => OneProfilePerEmail(employees')]_vars

\* the workbook has the four sheets and the Citi Email column in CG and CITI
HasEmailColumns(wb) ==
  /\ RequiredSheets \subseteq wb.sheets
  /\ "Citi Email" \in DataFrame(wb.CG).cols
  /\ "Citi Email" \in DataFrame(wb.CITI).cols

\* the values ingestion passes to upsert_employee_from_row for the e-mail of emp:
\* one record per merged row of the workbook that reaches the upsert
Incoming(wb, timeoff, emp) ==
  LET rows == Merged(WithColumn(DataFrame(wb.CG), "Month"),
                     WithColumn(DataFrame(wb.CITI), "Month"))
      values == {MonthlyRow(rows[i], timeoff) : i \in 1..Len(rows)}
  IN {a \in {v \in values : v.kind = "ok"} : Text(a.citi_email) = emp.citi_email}

\* C7: when ingestion updates an existing profile, each of employee_id, name,
\* cg_email, region_code, region_name, default_project_code and billing_rate either
\* keeps its stored value or takes a non-empty (non-zero, not UNKNOWN) incoming
\* value; status, start_date and end_date keep their values.
C7_UpdateKeepsStoredValues ==
  [][last'.op = "upload" =>
       IF ~HasEmailColumns(Workbook[last'.arg]) THEN employees' = employees
       ELSE
         \A i \in 1..Len(employees) :
           LET old == employees[i]
               new == employees'[i]
               incoming == Incoming(Workbook[last'.arg], time_off, old)
           IN /\ Len(employees') >= Len(employees)
              /\ new.id = old.id /\ new.citi_email = old.citi_email
              /\ new.status = old.status
              /\ new.start_date = old.start_date
              /\ new.end_date = old.end_date
              /\ \/ new.employee_id = old.employee_id
                 \/ \E a \in incoming : a.eid # "" /\ new.employee_id = Text(a.eid)
              /\ \/ new.name = old.name
                 \/ \E a \in incoming : a.name # "" /\ new.name = Text(a.name)
              /\ \/ new.cg_email = old.cg_email
                 \/ \E a \in incoming : a.cg_email # "" /\ new.cg_email = Text(a.cg_email)
              /\ \/ new.region_code = old.region_code
                 \/ \E a \in incoming :
                      a.region_code # "" /\ new.region_code = Text(a.region_code)
              /\ \/ new.region_name = old.region_name
                 \/ \E a \in incoming :
                      a.region_name # "" /\ new.region_name = Text(a.region_name)
              /\ \/ new.default_project_code = old.default_project_code
                 \/ \E a \in incoming :
                      /\ a.project_code \notin {"", "UNKNOWN"}
                      /\ new.default_project_code = Text(a.project_code)
              /\ \/ new.billing_rate = old.billing_rate
                 \/ \E a \in incoming :
                      /\ IsNum(a.billing_rate) /\ a.billing_rate.n # 0
                      /\ new.billing_rate = a.billing_rate
     ]_vars

\* C7 case: the profile of a@x, created from complete master data, was ingested
\* again from a row whose master data cells are empty, its rate 0 and its project
\* code blank, and still holds the values of the first ingestion.
C7_EmptyIncomingKept ==
  /\ last.op = "upload" /\ last.arg = "blank_fields" /\ last.ok
  /\ \E i \in 1..Len(employees) :
       /\ employees[i].citi_email = Text("a@x")
       /\ employees[i].name = Text("Alex")
       /\ employees[i].default_project_code = Text("P100")
       /\ employees[i].billing_rate = Num(7500)

\* the Employee row with this id is in the table
HasId(table, id) == \E j \in 1..Len(table) : table[j].id = id

\* C8 as stated: no Employee row that once existed is removed from the table.
C8_NeverDeleted ==
  [][\A i \in 1..Len(employees) : HasId(employees', employees[i].id)]_vars

\* C8 as the code has it: only deduplicate_employees removes Employee rows, and it
\* removes a row only when an earlier row with the same non-empty key (citi_email
\* in lower case, else employee_id) stays; deboarding keeps the row and sets its
\* status to Inactive.
C8_OnlyDuplicatesDeleted ==
  [][/\ \A i \in 1..Len(employees) :
          ~HasId(employees', employees[i].id) =>
             /\ last'.op = "deduplicate"
             /\ \E k \in 1..(i - 1) :
                  /\ DedupKey(employees[k]) = DedupKey(employees[i])
                  /\ DedupKey(employees[i]) # ""
                  /\ HasId(employees', employees[k].id)
     /\ (last'.op = "deboard" /\ last'.ok) =>
          \E i \in 1..Len(employees') :
            employees'[i].id = last'.id /\ employees'[i].status = Text("Inactive")
    ]_vars

\* C8 case: deduplicate_employees removed a row and kept another.
C8_DuplicateRemoved ==
  /\ last.op = "deduplicate" /\ last.n > 0
  /\ Len(employees) > 0

-----------------------------------------------------------------------------
(* Properties of failed and partial ingestions *)

\* C9: when ingest_workbook ends in an error the ReconEntry, Employee, CGDaily and
\* CITIDaily tables are as they were before the call.
C9_RejectedLeavesStores ==
  [][(last'.op = "upload" /\ ~last'.ok)
       => UNCHANGED <<recon, employees, cg_daily, citi_daily>>]_vars

\* the workbook has every required sheet and column
WellStructured(wb) ==
  /\ HasEmailColumns(wb)
  /\ "Date" \in DataFrame(wb.CG_DAILY).cols
  /\ "Date" \in DataFrame(wb.CITI_DAILY).cols

\* the (citi_email, month) pairs of the well-formed merged rows of a workbook
WellFormedPairs(wb, timeoff) ==
  LET rows == Merged(WithColumn(DataFrame(wb.CG), "Month"),
                     WithColumn(DataFrame(wb.CITI), "Month"))
      values == {MonthlyRow(rows[i], timeoff) : i \in 1..Len(rows)}
  IN {<<a.citi_email, a.entry.month>> : a \in {v \in values : v.kind = "ok"}}

\* C10: a malformed row is skipped on its own: the ingestion of a workbook with
\* every required sheet and column succeeds and stores every well-formed row.
C10_MalformedRowSkipped ==
  [][(last'.op = "upload" /\ WellStructured(Workbook[last'.arg])) =>
       /\ last'.ok
       /\ \A p \in WellFormedPairs(Workbook[last'.arg], time_off) :
            \E i \in 1..Len(recon') :
              recon'[i].citi_email = p[1] /\ recon'[i].month = p[2]
    ]_vars

-----------------------------------------------------------------------------
(* Properties of the per-month replace *)

\* the merged monthly rows of a workbook with the Citi Email columns
MergedRows(wb) ==
  Merged(WithColumn(DataFrame(wb.CG), "Month"), WithColumn(DataFrame(wb.CITI), "Month"))

\* the month labels present in the merged data
LabelsOf(rows) == {Str(rows[i]["Month"]) : i \in {j \in 1..Len(rows) : ~IsNA(rows[j]["Month"])}}

\* the records derived from the merged rows, in row order
RECURSIVE DerivedFrom(_, _, _)
DerivedFrom(rows, i, timeoff) ==
  IF i > Len(rows) THEN <<>>
  ELSE (IF MonthlyRow(rows[i], timeoff).kind = "ok"
        THEN <<MonthlyRow(rows[i], timeoff).entry>> ELSE <<>>)
       \o DerivedFrom(rows, i + 1, timeoff)

\* C11: a successful ingestion is a full per-month replace: for every month label
\* of the merged data the records of that month are afterwards exactly those
\* derived from the workbook (no earlier record of the month survives), and the
\* records of every other month are unchanged.
C11_FullMonthReplace ==
  [][(last'.op = "upload" /\ last'.ok) =>
       LET rows == MergedRows(Workbook[last'.arg])
       IN /\ SelectSeq(recon', LAMBDA r : r.month \in LabelsOf(rows))
               = DerivedFrom(rows, 1, time_off)
          /\ SelectSeq(recon', LAMBDA r : r.month \notin LabelsOf(rows))
               = SelectSeq(recon, LAMBDA r : r.month \notin LabelsOf(rows))
    ]_vars

\* C11 case: a February row of a@x was ingested earlier (its profile starts on
\* 2025-02-01), then a workbook for February that does not list a@x: February holds
\* the records of that workbook only, the January record of a@x is still there.
C11_MonthReplaced ==
  /\ last.op = "upload" /\ last.arg = "citi_only" /\ last.ok
  /\ \E i \in 1..Len(employees) :
       employees[i].citi_email = Text("a@x") /\ employees[i].start_date = Date(20250201)
  /\ \E i \in 1..Len(recon) : recon[i].month = "2025-01" /\ recon[i].citi_email = "a@x"
  /\ \E i \in 1..Len(recon) : recon[i].month = "2025-02"
  /\ \A i \in 1..Len(recon) : recon[i].month = "2025-02" => recon[i].citi_email # "a@x"

-----------------------------------------------------------------------------
(* Properties of leave and expected hours *)

\* the Monday-to-Friday days of a month that lie in the interval between the two
\* dates of a leave request (taken in calendar order, as working_days_between and
\* the days figure of the request take them)
LeaveDaysInMonth(t, year, month) ==
  LET lo == IF t.end_date < t.start_date THEN t.end_date ELSE t.start_date
      hi == IF t.end_date < t.start_date THEN t.start_date ELSE t.end_date
  IN {d \in {DateOf(year, month, n) : n \in 1..DaysInMonth(year, month)} :
        lo <= d /\ d <= hi /\ Weekday(d) < 5}

\* 8 hours (in hundredths) for every such day of the Approved requests of an e-mail
RECURSIVE LeaveHours(_, _, _, _, _)
LeaveHours(table, i, citi_email, year, month) ==
  IF i > Len(table) THEN 0
  ELSE (IF table[i].citi_email = citi_email /\ table[i].status = "Approved"
        THEN 800 * Cardinality(LeaveDaysInMonth(table[i], year, month)) ELSE 0)
       + LeaveHours(table, i + 1, citi_email, year, month)

\* C12: approved_timeoff_hours_for_month(email, year, month) is the sum, over the
\* Approved leave requests of that e-mail whose interval meets the month, of 8 x
\* the working days of the overlap; Pending and Rejected requests and requests of
\* other e-mails add nothing; effective expected hours are never negative.
C12_ApprovedLeaveHours ==
  /\ \A citi_email \in {"a@x", "b@x"}, month \in 1..2 :
       approved_timeoff_hours_for_month(time_off, citi_email, 2025, month)
         = LeaveHours(time_off, 1, citi_email, 2025, month)
  /\ \A i \in 1..Len(recon) : recon[i].expected_hours.n >= 0

\* calendar hours of the month of a record minus the approved leave hours of its
\* e-mail for that month, floored at 0 (hundredths)
EffectiveFigure(r, timeoff) ==
  LET year == ParsedLabel[r.month][1]
      mon == ParsedLabel[r.month][2]
      raw == expected_hours_for_month(year, mon, r.holidays).n
      leave == approved_timeoff_hours_for_month(timeoff, r.citi_email, year, mon)
  IN IF raw - leave > 0 THEN raw - leave ELSE 0

\* C13: the expected_hours of every ReconEntry, whether created by workbook
\* ingestion or as the skeleton record of create_employee, is the effective
\* figure: calendar hours minus the approved leave hours of that e-mail for that
\* month, floored at 0.
C13_ExpectedIsEffective ==
  [][last'.op \in {"upload", "create_employee"} =>
       \A i \in 1..Len(recon') :
         recon'[i] \notin Records(recon) =>
           recon'[i].expected_hours = Num(EffectiveFigure(recon'[i], time_off))
    ]_vars

-----------------------------------------------------------------------------
(* expected_hours_for_month on its own *)

\* Holidays cells: the cell and the dates a reader finds listed in it
HolidayLists ==
  {[cell |-> None, dates |-> {}],
   [cell |-> Text("nan"), dates |-> {}],
   \* New Year's Day (a Wednesday) and a Saturday
   [cell |-> Text("2025-01-01,2025-01-04"), dates |-> {20250101, 20250104}],
   \* a repeated date and a malformed token
   [cell |-> Text("2025-01-01, junk,2025-01-01"), dates |-> {20250101}],
   \* blanks, an empty token, dates of two months
   [cell |-> Text("2025-01-13, 2025-01-15,,2025-02-03"),
    dates |-> {20250113, 20250115, 20250203}],
   [cell |-> Text("2025-02-03"), dates |-> {20250203}]}

Years == {2024, 2025}

InitHours ==
  /\ recon = <<>>
  /\ employees = <<>>
  /\ cg_daily = <<>>
  /\ citi_daily = <<>>
  /\ time_off = <<>>
  /\ last = [op |-> "start", arg |-> "", id |-> 0, ok |-> TRUE, n |-> 0]
  /\ ops = 0
  /\ sessions = NoSessions
  /\ \E year \in Years, month \in 1..12, holidays \in HolidayLists :
       calc = [year |-> year, month |-> month, holidays |-> holidays, step |-> "input",
               out |-> NoResult]

\* expected_hours_for_month(year, month, holidays_csv)
ExpectedHours ==
  /\ calc.step = "input"
  /\ calc' = [calc EXCEPT
                !.step = "expected_hours",
                !.out = [hours |-> expected_hours_for_month(calc.year, calc.month,
                                                            calc.holidays.cell)]]
  /\ UNCHANGED <<recon, employees, cg_daily, citi_daily, time_off, last, ops, sessions>>

SpecHours == InitHours /\ [][ExpectedHours]_vars

\* the Monday-to-Friday days of a month
BusinessDays(year, month) ==
  {d \in {DateOf(year, month, n) : n \in 1..DaysInMonth(year, month)} : Weekday(d) < 5}

\* C14: expected_hours_for_month(year, month, holidays) is 8 x the Monday-to-Friday
\* days of the month minus 8 x the distinct listed holiday dates that are such a
\* day of that month; weekend holidays, holidays of other months, repeated dates
\* and malformed tokens change nothing.
C14_ExpectedHours ==
  calc.step = "expected_hours" =>
    calc.out.hours =
      Num(800 * Cardinality(BusinessDays(calc.year, calc.month))
          - 800 * Cardinality(calc.holidays.dates \cap BusinessDays(calc.year, calc.month)))

\* C14 case: January 2025 with a holiday on a Wednesday and one on a Saturday:
\* 23 working days less one.
C14_WeekendHoliday ==
  /\ calc.step = "expected_hours"
  /\ calc.year = 2025 /\ calc.month = 1
  /\ calc.holidays.dates = {20250101, 20250104}
  /\ calc.out.hours = Num(17600)

-----------------------------------------------------------------------------
(* Properties of reminders *)

\* the month label of the reminder request recorded in l
ReminderMonth(l) == IF l.id = 1 THEN "2025-01" ELSE "2025-02"

NonCompliant == {"Partial", "Mismatch", "Not Completed"}

\* table after, table before: the counter of exactly the records in chosen went up
\* by one, nothing else changed
OnlyCounted(after, before, chosen) ==
  /\ Len(after) = Len(before)
  /\ \A i \in 1..Len(before) :
       after[i] = IF i \in chosen
                  THEN [before[i] EXCEPT !.reminders = before[i].reminders + 1]
                  ELSE before[i]

\* C15: a reminder request for a month without target ids adds exactly 1 to the
\* counter of every record of that month whose reconciled status is Partial,
\* Mismatch or Not Completed, changes nothing else, and returns their number.
C15_RemindNonCompliant ==
  [][(last'.op = "send_reminder" /\ last'.arg = "none") =>
       LET chosen == {i \in 1..Len(recon) :
                        /\ recon[i].month = ReminderMonth(last')
                        /\ recon[i].reconciled_status \in NonCompliant}
       IN /\ OnlyCounted(recon', recon, chosen)
          /\ last'.n = Cardinality(chosen)
          /\ UNCHANGED <<employees, cg_daily, citi_daily, time_off>>
    ]_vars

\* C15 case: a request without targets for February, which holds a Completed
\* record (not counted) and a non-compliant one (counted once).
C15_CompletedSkipped ==
  /\ last.op = "send_reminder" /\ last.arg = "none" /\ last.id = 2 /\ last.n >= 1
  /\ \E i \in 1..Len(recon) :
       /\ recon[i].month = "2025-02" /\ recon[i].reconciled_status = "Completed"
       /\ recon[i].reminders = 0
  /\ \E i \in 1..Len(recon) :
       /\ recon[i].month = "2025-02" /\ recon[i].reconciled_status \in NonCompliant
       /\ recon[i].reminders = 1

\* C16: when target ids are given, an empty list included, the records counted
\* are exactly those of the month whose employee_id or citi_email is in the
\* target set, whatever their reconciled status.
C16_RemindTargets ==
  [][(last'.op = "send_reminder" /\ last'.arg \in {"empty", "ids"}) =>
       LET ids == ReminderTargets[last'.arg].ids
           chosen == {i \in 1..Len(recon) :
                        /\ recon[i].month = ReminderMonth(last')
                        /\ \/ recon[i].employee_id \in {Text(t) : t \in ids}
                           \/ recon[i].citi_email \in ids}
       IN OnlyCounted(recon', recon, chosen)
    ]_vars

\* C17: reminders add up: when a request without targets for a month directly
\* follows another one for the same month, every non-compliant record of the
\* month was counted by the first and is counted again by the second (+2).
C17_RemindersAddUp ==
  [][(/\ last.op = "send_reminder" /\ last.arg = "none"
      /\ last'.op = "send_reminder" /\ last'.arg = "none" /\ last'.id = last.id) =>
       \A i \in 1..Len(recon) :
         (recon[i].month = ReminderMonth(last) /\ recon[i].reconciled_status \in NonCompliant)
           => /\ recon[i].reminders >= 1
              /\ recon'[i].reminders = recon[i].reminders + 1
    ]_vars

\* C17 case: a Mismatch record reminded twice.
C17_RemindedTwice ==
  /\ last.op = "send_reminder" /\ last.arg = "none" /\ last.n >= 1
  /\ \E i \in 1..Len(recon) :
       recon[i].reconciled_status = "Mismatch" /\ recon[i].reminders = 2

-----------------------------------------------------------------------------
(* Two reminder requests served at the same time *)

\* Each request has its own Session on the one SQLite file (get_db, db.py 14-16).
\* The SELECT of _trigger_reminders_for_month takes no lock that outlives it; the
\* loop changes the loaded objects in memory; db.commit() flushes one UPDATE per
\* changed object that sets the column to the value computed in memory.

EmptyDb ==
  [recon |-> <<>>, employees |-> <<>>, cg_daily |-> <<>>, citi_daily |-> <<>>,
   time_off |-> <<>>]

RemindBooks == {"complete", "mixed", "two_months", "duplicates", "blank_fields"}
RemindMonths == {"2025-01", "2025-02"}
Requests == {1, 2}

InitRemind ==
  /\ \E name \in RemindBooks :
       /\ recon = ingest_workbook(Workbook[name], EmptyDb).db.recon
       /\ employees = ingest_workbook(Workbook[name], EmptyDb).db.employees
       /\ cg_daily = ingest_workbook(Workbook[name], EmptyDb).db.cg_daily
       /\ citi_daily = ingest_workbook(Workbook[name], EmptyDb).db.citi_daily
       /\ last = [op |-> "upload", arg |-> name, id |-> 0, ok |-> TRUE, n |-> 0]
  /\ time_off = <<>>
  /\ ops = 0
  /\ calc = NoCalc
  /\ \E ym \in RemindMonths, t1 \in DOMAIN ReminderTargets, t2 \in DOMAIN ReminderTargets :
       sessions = [kind |-> "remind", ym |-> ym, before |-> recon,
                   s |-> [p \in Requests |->
                            [pc |-> "start",
                             targets |-> IF p = 1 THEN t1 ELSE t2,
                             rows |-> {}, loaded |-> <<>>]]]

\* lines 1392-1405: the SELECT, the filter and the loop; loaded is the table as
\* the session holds it in memory, rows the positions of the changed objects
RemindSelect(p) ==
  LET me == sessions.s[p]
      r == trigger_reminders_for_month(DB, sessions.ym, ReminderTargets[me.targets])
  IN /\ sessions.kind = "remind"
     /\ me.pc = "start"
     /\ sessions' = [sessions EXCEPT
                       !.s[p] = [me EXCEPT
                                   !.pc = "loaded",
                                   !.loaded = r.db.recon,
                                   !.rows = {i \in 1..Len(recon) :
                                               r.db.recon[i] # recon[i]}]]
     /\ UNCHANGED <<recon, employees, cg_daily, citi_daily, time_off, last, ops, calc>>

\* line 1407: db.commit() writes the value of each changed object
RemindCommit(p) ==
  LET me == sessions.s[p]
  IN /\ sessions.kind = "remind"
     /\ me.pc = "loaded"
     /\ recon' = [i \in 1..Len(recon) |->
                    IF i \in me.rows
                    THEN [recon[i] EXCEPT !.reminders = me.loaded[i].reminders]
                    ELSE recon[i]]
     /\ sessions' = [sessions EXCEPT !.s[p].pc = "done"]
     /\ Done("send_reminder", me.targets, p, TRUE, Cardinality(me.rows))
     /\ UNCHANGED <<employees, cg_daily, citi_daily, time_off, ops, calc>>

NextRemind ==
  \/ \E p \in Requests : RemindSelect(p)
  \/ \E p \in Requests : RemindCommit(p)

SpecRemind == InitRemind /\ [][NextRemind]_vars

\* C18: when two reminder requests for the same month have both finished, the
\* counter of every record that both selected is exactly 2 higher than before
\* the two requests, whatever the interleaving (no lost update).
C18_NoLostUpdate ==
  (sessions.kind = "remind" /\ \A p \in Requests : sessions.s[p].pc = "done")
    => \A i \in sessions.s[1].rows \cap sessions.s[2].rows :
         recon[i].reminders = sessions.before[i].reminders + 2

\* the same when the second request starts after the first has finished
C18_OneAfterTheOther ==
  (/\ sessions.kind = "remind"
   /\ \A p \in Requests : sessions.s[p].pc = "done"
   /\ \E p \in Requests :
        sessions.s[p].loaded # <<>>
        /\ \E i \in sessions.s[3 - p].rows :
             sessions.s[p].loaded[i].reminders = sessions.before[i].reminders + 2)
    => \A i \in sessions.s[1].rows \cap sessions.s[2].rows :
         recon[i].reminders = sessions.before[i].reminders + 2

-----------------------------------------------------------------------------
(* Two uploads and a report served at the same time *)

\* Each request has its own connection to the one SQLite file. pysqlite begins a
\* transaction before the first DELETE, INSERT or UPDATE of a connection, and
\* SQLite gives the write lock to one connection at a time, from that statement
\* to the COMMIT or ROLLBACK. What a transaction has changed is written for the
\* other connections at its COMMIT. A SELECT on its own holds nothing once it has
\* returned.

BeforeBooks == {"complete", "two_months"}
IngestBooks == {"mixed", "blank_fields", "moved", "bad_hours", "no_email_column"}
ReadMonth == "2025-01"
Uploads == {1, 2}

\* the rows a transaction has deleted and not yet committed
NoTx == [deleted |-> {}]

InitIngest ==
  /\ \E name \in BeforeBooks :
       /\ recon = ingest_workbook(Workbook[name], EmptyDb).db.recon
       /\ employees = ingest_workbook(Workbook[name], EmptyDb).db.employees
       /\ cg_daily = ingest_workbook(Workbook[name], EmptyDb).db.cg_daily
       /\ citi_daily = ingest_workbook(Workbook[name], EmptyDb).db.citi_daily
       /\ last = [op |-> "upload", arg |-> name, id |-> 0, ok |-> TRUE, n |-> 0]
  /\ time_off = <<>>
  /\ ops = 0
  /\ calc = NoCalc
  /\ \E b1 \in IngestBooks, b2 \in IngestBooks :
       sessions = [kind |-> "ingest", ym |-> ReadMonth, before |-> recon,
                   writer |-> 0, commits |-> <<>>,
                   s |-> [p \in Uploads |->
                            [pc |-> "start", book |-> IF p = 1 THEN b1 ELSE b2,
                             tx |-> NoTx]],
                   reader |-> [pc |-> "start", rows |-> <<>>, during |-> {}]]

\* lines 684-708 of ingest_workbook: the sheets and the Citi Email columns
Checked(wb) ==
  IF ~(RequiredSheets \subseteq wb.sheets) THEN FALSE
  ELSE /\ "Citi Email" \in DataFrame(wb.CG).cols
       /\ "Citi Email" \in DataFrame(wb.CITI).cols

\* A lock-free variant of WriterFree: any connection may begin a write transaction
\* while another has one open (C20 fails).
NoWriteLock(ss) == TRUE

\* SQLite's write lock: no connection has a write transaction open
WriterFree(ss) == ss.writer = 0

\* A variant of Visible in which the other connections read what the open
\* transaction has changed before it commits (C19 fails).
ReadUncommitted(table, tx) == SelectSeq(table, LAMBDA r : r \notin tx.deleted)

\* what a SELECT of another connection reads of a table while a transaction tx is
\* open: the committed rows
Visible(table, tx) == table

\* the rows DELETE ... WHERE month == ym removes, for the months of the file
Deleted(table, months) ==
  {table[i] : i \in 1..Len(table)}
    \ {DeleteMonths(table, months)[i] : i \in 1..Len(DeleteMonths(table, months))}

\* the request fails its checks before it touches the database
IngestReject(p) ==
  /\ sessions.kind = "ingest"
  /\ sessions.s[p].pc = "start"
  /\ ~Checked(Workbook[sessions.s[p].book])
  /\ sessions' = [sessions EXCEPT !.s[p].pc = "failed"]
  /\ Done("upload", sessions.s[p].book, p, FALSE, 0)
  /\ UNCHANGED <<recon, employees, cg_daily, citi_daily, time_off, ops, calc>>

\* lines 722-726: the DELETE of the months of the file begins the transaction
IngestDelete(p) ==
  /\ sessions.kind = "ingest"
  /\ sessions.s[p].pc = "start"
  /\ Checked(Workbook[sessions.s[p].book])
  /\ WriterFree(sessions)
  /\ sessions' = [sessions EXCEPT
                    !.writer = p,
                    !.s[p].pc = "deleted",
                    !.s[p].tx = [deleted |->
                                   Deleted(recon,
                                           MonthsInFile(MergedRows(Workbook[sessions.s[p].book])))]]
  /\ UNCHANGED <<recon, employees, cg_daily, citi_daily, time_off, last, ops, calc>>

\* a DELETE that waits for the write lock longer than the timeout raises
\* "database is locked"; the request ends and its session is rolled back
IngestBusy(p) ==
  /\ sessions.kind = "ingest"
  /\ \/ sessions.s[p].pc = "start" /\ Checked(Workbook[sessions.s[p].book])
     \/ sessions.s[p].pc = "monthly"
  /\ ~WriterFree(sessions)
  /\ sessions' = [sessions EXCEPT !.s[p].pc = "failed"]
  /\ Done("upload", sessions.s[p].book, p, FALSE, 0)
  /\ UNCHANGED <<recon, employees, cg_daily, citi_daily, time_off, ops, calc>>

\* lines 728-843 with the session s after the loop: an exception rolls the
\* transaction back, else db.commit() writes the delete and the new rows
IngestCommitWith(p, s) ==
  /\ sessions' = [sessions EXCEPT
                    !.writer = IF @ = p THEN 0 ELSE @,
                    !.commits = IF s.raised THEN @ ELSE Append(@, p),
                    !.s[p].pc = IF s.raised THEN "failed" ELSE "monthly",
                    !.s[p].tx = NoTx]
  /\ recon' = IF s.raised THEN recon
              ELSE SelectSeq(recon, LAMBDA r : r \notin sessions.s[p].tx.deleted) \o s.adds
  /\ employees' = IF s.raised THEN employees ELSE InsertAll(s.emps, s.pending)
  /\ Done("upload", sessions.s[p].book, p, ~s.raised, 0)
  /\ UNCHANGED <<cg_daily, citi_daily, time_off, ops, calc>>

IngestCommit(p) ==
  /\ sessions.kind = "ingest"
  /\ sessions.s[p].pc = "deleted"
  /\ IngestCommitWith(p, MonthlyLoop(MergedRows(Workbook[sessions.s[p].book]), 1,
                                     [emps |-> employees, pending |-> <<>>,
                                      adds |-> <<>>, raised |-> FALSE],
                                     employees, time_off))

\* lines 845-937 with their result r: the daily sheets, a transaction of their own
IngestDailyWith(p, r) ==
  /\ cg_daily' = r.db.cg_daily
  /\ citi_daily' = r.db.citi_daily
  /\ sessions' = [sessions EXCEPT !.s[p].pc = IF r.ok THEN "done" ELSE "failed"]
  /\ Done("upload", sessions.s[p].book, p, r.ok, 0)
  /\ UNCHANGED <<recon, employees, time_off, ops, calc>>

IngestDailyPart(p) ==
  /\ sessions.kind = "ingest"
  /\ sessions.s[p].pc = "monthly"
  /\ WriterFree(sessions)
  /\ IngestDailyWith(p, IngestDaily(Workbook[sessions.s[p].book], DB))

\* GET /api/report, lines 1196-1199: the SELECT of the records of the month.
\* during is the set of uploads between their DELETE and their commit.
Read ==
  /\ sessions.kind = "ingest"
  /\ sessions.reader.pc = "start"
  /\ sessions' = [sessions EXCEPT
                    !.reader = [pc |-> "done",
                                during |-> {p \in Uploads : sessions.s[p].pc = "deleted"},
                                rows |-> SelectSeq(
                                           IF sessions.writer = 0 THEN recon
                                           ELSE Visible(recon, sessions.s[sessions.writer].tx),
                                           LAMBDA r : r.month = sessions.ym)]]
  /\ UNCHANGED <<recon, employees, cg_daily, citi_daily, time_off, last, ops, calc>>

NextIngest ==
  \/ \E p \in Uploads : IngestReject(p)
  \/ \E p \in Uploads : IngestDelete(p)
  \/ \E p \in Uploads : IngestBusy(p)
  \/ \E p \in Uploads : IngestCommit(p)
  \/ \E p \in Uploads : IngestDailyPart(p)
  \/ Read

SpecIngest == InitIngest /\ [][NextIngest]_vars

-----------------------------------------------------------------------------
(* Properties of uploads and reads served at the same time *)

InMonth(table, ym) == SelectSeq(table, LAMBDA r : r.month = ym)

\* the records of the month read that the workbook of upload p gives
DerivedIn(p) ==
  InMonth(DerivedFrom(MergedRows(Workbook[sessions.s[p].book]), 1, time_off), sessions.ym)

Committed == {sessions.commits[i] : i \in 1..Len(sessions.commits)}

\* C19 as stated: a report that reads month M between the DELETE and the commit of
\* an upload that replaces the records of M (M had records before, and has records
\* after that commit) observes M without records.
C19_ReaderSeesEmptyMonth ==
  (/\ sessions.kind = "ingest"
   /\ sessions.reader.pc = "done"
   /\ InMonth(sessions.before, sessions.ym) # <<>>
   /\ \E p \in sessions.reader.during \cap Committed : DerivedIn(p) # <<>>)
    => sessions.reader.rows = <<>>

\* C19, amended: the DELETE and the inserts of the monthly part are one
\* transaction, so a report reads the records of M as they were before the uploads
\* or as one upload committed them, never the month emptied by the DELETE alone.
C19_ReadSeesCommitted ==
  (sessions.kind = "ingest" /\ sessions.reader.pc = "done")
    => sessions.reader.rows
         \in {InMonth(sessions.before, sessions.ym)} \cup {DerivedIn(p) : p \in Committed}

\* C19 case: the report read January while an upload was between its DELETE and its
\* commit; it got the records from before, and the upload has since replaced them.
C19_ReadDuringReplace ==
  /\ sessions.kind = "ingest"
  /\ sessions.reader.pc = "done"
  /\ sessions.reader.rows = InMonth(sessions.before, sessions.ym)
  /\ sessions.reader.rows # <<>>
  /\ \E p \in sessions.reader.during \cap Committed :
       /\ DerivedIn(p) # <<>>
       /\ DerivedIn(p) # sessions.reader.rows
       /\ InMonth(recon, sessions.ym) = DerivedIn(p)

-----------------------------------------------------------------------------
(* Properties of leave requests *)

\* the Monday-to-Friday days between the two dates of a request, both included,
\* the dates taken in calendar order
WeekdaysBetween(a, b) ==
  LET lo == IF b < a THEN b ELSE a
      hi == IF b < a THEN a ELSE b
  IN {d \in lo..hi : /\ MonthOf(d) \in 1..12
                     /\ DayOf(d) \in 1..DaysInMonth(YearOf(d), MonthOf(d))
                     /\ Weekday(d) < 5}

\* C21: a leave request is created with status Pending and with days equal to the
\* number of Monday-to-Friday days between its two dates, both included; a request
\* once stored changes only through update_timeoff_status, which changes its
\* status alone, to Pending, Approved or Rejected and from any status; an unknown
\* id or a status outside the three changes nothing.
C21_LeaveRequestFrame ==
  [][/\ Len(time_off') >= Len(time_off)
     /\ \A i \in 1..Len(time_off') :
          IF i > Len(time_off)
          THEN /\ last'.op = "create_timeoff" /\ last'.ok
               /\ time_off'[i].status = "Pending"
               /\ time_off'[i].days
                    = Cardinality(WeekdaysBetween(time_off'[i].start_date,
                                                  time_off'[i].end_date))
          ELSE /\ time_off'[i] = [time_off[i] EXCEPT !.status = time_off'[i].status]
               /\ time_off'[i].status # time_off[i].status
                    => /\ last'.op = "timeoff_status" /\ last'.ok
                       /\ last'.id = time_off[i].id
                       /\ time_off'[i].status = Title(last'.arg)
                       /\ time_off'[i].status \in {"Pending", "Approved", "Rejected"}
     /\ (last'.op = "timeoff_status"
         /\ (last'.id \notin {time_off[i].id : i \in 1..Len(time_off)}
             \/ Title(last'.arg) \notin {"Pending", "Approved", "Rejected"}))
          => (~last'.ok /\ time_off' = time_off /\ recon' = recon
              /\ employees' = employees)
    ]_vars

\* C21 case: a request over three working days (Monday 13 to Wednesday 15 January
\* 2025) was created and its status was later set to Rejected: its dates, e-mail
\* and days are those of the request as created.
C21_StatusSetLater ==
  /\ last.op = "timeoff_status" /\ last.arg = "REJECTED" /\ last.ok /\ ops = 3
  /\ \E i \in 1..Len(time_off) :
       /\ time_off[i].id = last.id
       /\ time_off[i].status = "Rejected"
       /\ time_off[i].days = 3
       /\ time_off[i].citi_email = "a@x"
       /\ time_off[i].start_date = 20250113 /\ time_off[i].end_date = 20250115

-----------------------------------------------------------------------------
(* The ingestion of one monthly row *)

\* A workbook with one worker (Alex, a@x) listed by both sources for one month is
\* ingested into a database that holds leave requests of that worker and nothing
\* else; calc holds the cells that vary.

RowMonths == {Jan, Feb}
RowSubmitted == {Num(16000), Num(16800), Num(18400)}
RowHolidays == {NaN, Text("2025-01-01,2025-01-04"), Text("2025-01-13, 2025-01-15,,2025-02-03")}

\* a leave request created from payload name and then sent the status
WithLeave(db, name, status) ==
  update_timeoff_status(MaxId(db.time_off) + 1, Text(status),
                        create_timeoff(TimeoffPayload[name], db).db).db

\* the leave requests of a@x for Monday 13 to Wednesday 15 January 2025
RowLeave ==
  ("none" :> EmptyDb) @@
  ("rejected" :> WithLeave(EmptyDb, "three_days", "REJECTED")) @@
  ("approved" :> WithLeave(EmptyDb, "three_days", "approved")) @@
  ("twice" :> WithLeave(WithLeave(EmptyDb, "three_days", "approved"),
                        "three_days", "approved"))

RowBook(c) ==
  Monthly(<<CgRow(Alex, c.month, c.submitted_cg)>>,
          <<CitiRow(Alex, c.month, c.submitted_citi, c.holidays)>>)

InitRow ==
  /\ recon = <<>>
  /\ employees = <<>>
  /\ cg_daily = <<>>
  /\ citi_daily = <<>>
  /\ last = [op |-> "start", arg |-> "", id |-> 0, ok |-> TRUE, n |-> 0]
  /\ ops = 0
  /\ sessions = NoSessions
  /\ \E leave \in DOMAIN RowLeave, month \in RowMonths, holidays \in RowHolidays,
        submitted_cg \in RowSubmitted, submitted_citi \in RowSubmitted :
       /\ time_off = RowLeave[leave].time_off
       /\ calc = [step |-> "input", leave |-> leave, month |-> month,
                  holidays |-> holidays, submitted_cg |-> submitted_cg,
                  submitted_citi |-> submitted_citi, out |-> NoResult]

\* POST /api/upload of the workbook of calc, with its result r
IngestRowWith(r) ==
  /\ Commit(r.db)
  /\ Done("upload", "row", 0, r.ok, 0)
  /\ calc' = [calc EXCEPT !.step = "ingested"]
  /\ UNCHANGED <<ops, sessions>>

IngestRow ==
  /\ calc.step = "input"
  /\ IngestRowWith(ingest_workbook(RowBook(calc), DB))

SpecRow == InitRow /\ [][IngestRow]_vars

-----------------------------------------------------------------------------
(* Properties of one ingested row *)

\* the row of calc was ingested for January 2025 without holidays and without
\* approved leave, with the same figure on both sources
JanuaryPlain(figure) ==
  /\ calc.step = "ingested"
  /\ calc.month = Jan /\ calc.holidays = NaN /\ calc.leave \in {"none", "rejected"}
  /\ calc.submitted_cg = figure /\ calc.submitted_citi = figure

\* C22 as stated: for January 2025 with no holidays, 168 hours on both sources give
\* a record with expected hours 168, reconciled status Completed and reconciled
\* hours 168.
C22_Scenario168 ==
  JanuaryPlain(Num(16800)) =>
    /\ Len(recon) = 1
    /\ recon[1].expected_hours = Num(16800)
    /\ recon[1].reconciled_status = "Completed"
    /\ recon[1].reconciled_hours = Num(16800)

\* C22, amended: January 2025 has 23 Monday-to-Friday days, so with no holidays the
\* expected hours are 184: 168 hours on both sources give a record that is Partial
\* with reconciled hours 168, and 184 hours on both give Completed with 184.
C22_Scenario184 ==
  /\ JanuaryPlain(Num(16800)) =>
       /\ Len(recon) = 1
       /\ recon[1].expected_hours = Num(18400)
       /\ recon[1].status_cg = "Partial" /\ recon[1].status_citi = "Partial"
       /\ recon[1].reconciled_status = "Partial"
       /\ recon[1].reconciled_hours = Num(16800)
  /\ JanuaryPlain(Num(18400)) =>
       /\ Len(recon) = 1
       /\ recon[1].expected_hours = Num(18400)
       /\ recon[1].reconciled_status = "Completed"
       /\ recon[1].reconciled_hours = Num(18400)

\* C22 case: the row with 168 hours on both sources has been ingested
C22_Ingested168 ==
  /\ JanuaryPlain(Num(16800))
  /\ last.op = "upload" /\ last.ok
  /\ Len(recon) = 1 /\ recon[1].month = "2025-01" /\ recon[1].citi_email = "a@x"

-----------------------------------------------------------------------------
(* GET /api/billing *)

\* Amounts are integers in units of 1/10000: hours in hundredths times a rate in
\* hundredths. A quotient is a pair [num, den] with den > 0.

\* (r.reconciled_hours or 0) * (r.billing_rate or 0)
Amount(r) == Or(r.reconciled_hours, Num(0)).n * Or(r.billing_rate, Num(0)).n

RECURSIVE SumAmounts(_, _)
SumAmounts(rows, i) ==
  IF i > Len(rows) THEN 0 ELSE Amount(rows[i]) + SumAmounts(rows, i + 1)

\* round(num / den, 2) in the same units: the nearest multiple of 100, a tie to the
\* even one
Round2(num, den) ==
  LET q == num \div (den * 100)
      r == num - q * den * 100
  IN IF 2 * r > den * 100 THEN (q + 1) * 100
     ELSE IF 2 * r < den * 100 THEN q * 100
     ELSE IF q % 2 = 0 THEN q * 100 ELSE (q + 1) * 100

\* the rows of a month, under the project filter when one is given
BillingRows(table, ym, project_code) ==
  SelectSeq(table, LAMBDA r : /\ r.month = ym
                              /\ (Truthy(project_code) => r.project_code = Str(project_code)))

\* the month labels of the model, in the order sorted() gives them
BillMonths == <<"2025-01", "2025-02", "2025-03">>

\* all_months: sorted(set(...)) of the month column of the whole table
AllMonths(table) ==
  SelectSeq(BillMonths, LAMBDA m : \E i \in 1..Len(table) : table[i].month = m)

\* trend_values: the total of every month of all_months under the filter
TrendValues(table, project_code) ==
  [k \in 1..Len(AllMonths(table)) |->
     SumAmounts(BillingRows(table, AllMonths(table)[k], project_code), 1)]

RECURSIVE SumSeq(_, _)
SumSeq(ys, k) == IF k > Len(ys) THEN 0 ELSE ys[k] + SumSeq(ys, k + 1)

\* sum((x - x_mean) * (y - y_mean)) over xs = 0..n-1, times n * n: each factor is
\* taken times n, which makes it an integer (n * x_mean and n * y_mean are the sums)
RECURSIVE Covariance(_, _)
Covariance(ys, k) ==
  IF k > Len(ys) THEN 0
  ELSE (Len(ys) * (k - 1) - (Len(ys) * (Len(ys) - 1)) \div 2)
         * (Len(ys) * ys[k] - SumSeq(ys, 1))
       + Covariance(ys, k + 1)

\* denom = sum((x - x_mean) ** 2), times n * n
RECURSIVE Denom(_, _)
Denom(n, k) ==
  IF k > n THEN 0
  ELSE (n * (k - 1) - (n * (n - 1)) \div 2) * (n * (k - 1) - (n * (n - 1)) \div 2)
       + Denom(n, k + 1)

\* slope = covariance / denom; n divides both sums as taken above
Slope(ys) ==
  [num |-> Covariance(ys, 1) \div Len(ys), den |-> Denom(Len(ys), 1) \div Len(ys)]

\* intercept = y_mean - slope * x_mean, over the denominator n * den of the slope
Intercept(ys) ==
  [num |-> SumSeq(ys, 1) * Slope(ys).den
           - Slope(ys).num * ((Len(ys) * (Len(ys) - 1)) \div 2),
   den |-> Len(ys) * Slope(ys).den]

\* A faulty variant of Clamp that lets a negative forecast through (C24 fails).
NoClamp(x) == x

\* max(x, 0.0)
Clamp(x) == IF x > 0 THEN x ELSE 0

\* sum(forecasts) for i from i to 11, over the denominator of the intercept
RECURSIVE Forecasts(_, _)
Forecasts(ys, i) ==
  IF i > 11 THEN 0
  ELSE Clamp(Intercept(ys).num + Len(ys) * Slope(ys).num * (Len(ys) + i))
       + Forecasts(ys, i + 1)

\* lines 1306-1322 from the monthly total and the trend values
AnnualProjection(monthly_total, ys) ==
  IF Len(ys) >= 2
  THEN IF Denom(Len(ys), 1) > 0
       THEN Round2(Forecasts(ys, 0), Intercept(ys).den)
       ELSE Round2(monthly_total * 12, 1)
  ELSE Round2(monthly_total * 12, 1)

\* billing(year, month, project_code, db): the figures of the response
billing(year, month, project_code, table) ==
  LET monthly_total ==
        Round2(SumAmounts(BillingRows(table, FormatYm(year, month), project_code), 1), 1)
  IN [monthly_total |-> monthly_total,
      trend_labels |-> AllMonths(table),
      trend_values |-> TrendValues(table, project_code),
      annual_projection |->
        AnnualProjection(monthly_total, TrendValues(table, project_code))]

\* The records read: for each of three months and two projects (each with its
\* own worker), no record or one record with a rate of 100.00 and the hours of the cell (NULL where the
\* ingestion stored NaN, negative where both sources reported a negative figure).
NoRecord == [k |-> "absent", n |-> 0, s |-> ""]
BillCells ==
  [project |-> {"P100"}, hours |-> {NoRecord, Num(100), Num(110), Num(120), Num(-50)}]
OtherCells == [project |-> {"P200"}, hours |-> {NoRecord, Num(10), None}]
BillProjects == <<"P100", "P200">>
BillFilters == {None, Text(""), Text("P100"), Text("P200")}

BillRecord(month, project, hours) ==
  [month |-> month, citi_email |-> IF project = "P100" THEN "a@x" ELSE "b@x",
   project_code |-> project,
   reconciled_hours |-> hours, billing_rate |-> Num(10000)]

\* cells[m][p] is the cell of month m and project p; the table lists the records
\* month by month
BillTable(cells) ==
  SelectSeq([k \in 1..6 |->
               BillRecord(BillMonths[((k - 1) \div 2) + 1], BillProjects[((k - 1) % 2) + 1],
                          cells[((k - 1) \div 2) + 1][((k - 1) % 2) + 1])],
            LAMBDA r : r.reconciled_hours # NoRecord)

InitBilling ==
  /\ employees = <<>>
  /\ cg_daily = <<>>
  /\ citi_daily = <<>>
  /\ time_off = <<>>
  /\ last = [op |-> "start", arg |-> "", id |-> 0, ok |-> TRUE, n |-> 0]
  /\ ops = 0
  /\ sessions = NoSessions
  /\ calc = [step |-> "input", out |-> NoResult]
  /\ \E cells \in [1..3 -> [1..1 -> BillCells.hours] \X [1..1 -> OtherCells.hours]] :
       recon = BillTable([m \in 1..3 |-> <<cells[m][1][1], cells[m][2][1]>>])

\* GET /api/billing?year=2025&month=..&project_code=..
Billing(month, project_code) ==
  /\ calc.step = "input"
  /\ calc' = [step |-> "billing", month |-> month, project_code |-> project_code,
              out |-> billing(2025, month, project_code, recon)]
  /\ UNCHANGED <<recon, employees, cg_daily, citi_daily, time_off, last, ops, sessions>>

NextBilling == \E month \in 1..3, project_code \in BillFilters : Billing(month, project_code)

SpecBilling == InitBilling /\ [][NextBilling]_vars

-----------------------------------------------------------------------------
(* Properties of the annual projection *)

\* the months that have records under the project filter of the request
MonthsWithData(table, project_code) ==
  {table[i].month : i \in {j \in 1..Len(table) :
                             Truthy(project_code) => table[j].project_code = Str(project_code)}}

\* C23: the annual projection is monthly_total x 12 whenever fewer than 2 months
\* have records under the project filter of the request, also when other projects
\* have records in other months.
C23_FallbackUnderFilter ==
  (calc.step = "billing" /\ Cardinality(MonthsWithData(recon, calc.project_code)) < 2)
    => calc.out.annual_projection = 12 * calc.out.monthly_total

\* the same with the months counted over the whole table, whatever the filter
C23_FallbackOverAllMonths ==
  (calc.step = "billing" /\ Cardinality(MonthsWithData(recon, None)) < 2)
    => calc.out.annual_projection = 12 * calc.out.monthly_total

\* 100.00, 110.00, ... in the units of the amounts
Money(x) == x * 10000

\* the forecast for index x of the line through the points (k - 1, ys[k]) with
\* slope a and intercept b, both over the denominator d, times d
LineAt(a, b, x) == b + a * x

\* a / d and b / d are the least-squares slope and intercept of ys: the residuals
\* sum to 0 and are orthogonal to the indices (the normal equations)
IsLeastSquares(ys, a, b, d) ==
  /\ d > 0
  /\ SumSeq([k \in 1..Len(ys) |-> d * ys[k] - LineAt(a, b, k - 1)], 1) = 0
  /\ SumSeq([k \in 1..Len(ys) |-> (k - 1) * (d * ys[k] - LineAt(a, b, k - 1))], 1) = 0

\* C24: with at least 2 months in the series the annual projection is the sum,
\* rounded to 2 places, of the 12 forecasts intercept + slope * (n + i), i = 0..11,
\* of the least-squares line over the indices 0..n-1, each forecast clamped at 0
\* before summing; it is never negative; for the totals 100, 110, 120 the slope is
\* 10, the intercept 100 and the projection 2220.
C24_Projection ==
  (calc.step = "billing" /\ Len(calc.out.trend_values) >= 2) =>
    LET ys == calc.out.trend_values
        n == Len(ys)
        d == Intercept(ys).den
        a == Slope(ys).num * n
        b == Intercept(ys).num
    IN /\ IsLeastSquares(ys, a, b, d)
       /\ calc.out.annual_projection
            = Round2(SumSeq([i \in 1..12 |->
                               IF LineAt(a, b, n + i - 1) > 0
                               THEN LineAt(a, b, n + i - 1) ELSE 0], 1), d)
       /\ calc.out.annual_projection >= 0
       /\ ys = <<Money(100), Money(110), Money(120)>> =>
            /\ a = 10 * Money(1) * d
            /\ b = 100 * Money(1) * d
            /\ calc.out.annual_projection = Money(2220)

\* C24 case: a request whose trend series is 100, 110, 120 was answered with the
\* projection 2220
C24_Series100To120 ==
  /\ calc.step = "billing"
  /\ calc.out.trend_values = <<Money(100), Money(110), Money(120)>>
  /\ calc.out.annual_projection = Money(2220)

-----------------------------------------------------------------------------
(* The fields of a merged row that have several candidate columns *)

\* The merge gives a column that both sheets have the suffixes _cg and _citi and
\* leaves a column that one sheet has under its own name. pd.read_excel reads an
\* empty cell, and a cell that holds an empty string, as NaN, so a cell of a merged
\* row is NaN or a value, never the empty string.

\* the field of the ReconEntry and the column it is read from
FieldColumn ==
  ("employee_id" :> "ID") @@ ("name" :> "Name") @@ ("cg_email" :> "CG Email") @@
  ("region_code" :> "Region Code") @@ ("region_name" :> "Region Name") @@
  ("project_name" :> "Project Name")

Suffixed(col, suffix) ==
  IF suffix = "_cg"
  THEN CASE col = "ID" -> "ID_cg" [] col = "Name" -> "Name_cg"
         [] col = "CG Email" -> "CG Email_cg" [] col = "Region Code" -> "Region Code_cg"
         [] col = "Region Name" -> "Region Name_cg"
         [] col = "Project Name" -> "Project Name_cg"
  ELSE CASE col = "ID" -> "ID_citi" [] col = "Name" -> "Name_citi"
         [] col = "CG Email" -> "CG Email_citi" [] col = "Region Code" -> "Region Code_citi"
         [] col = "Region Name" -> "Region Name_citi"
         [] col = "Project Name" -> "Project Name_citi"

CellValues == {NaN, Text("A"), Text("B"), Text(" ")}

\* the cells of the column in the merged row: of both sheets, of one sheet, of none
CandidateCells ==
  {[sheets |-> "both", cg |-> v, citi |-> w] : v \in CellValues, w \in CellValues}
    \cup {[sheets |-> "one", cg |-> v, citi |-> NaN] : v \in CellValues}
    \cup {[sheets |-> "none", cg |-> NaN, citi |-> NaN]}

\* the merged row of the workbook complete with the cells c under column col
CandidateRow(col, c) ==
  LET base == MergedRows(Workbook["complete"])[1]
      cols == (DOMAIN base \ {col})
                \cup (CASE c.sheets = "both" -> {Suffixed(col, "_cg"), Suffixed(col, "_citi")}
                        [] c.sheets = "one" -> {col}
                        [] OTHER -> {})
  IN [k \in cols |->
        IF k = col \/ k = Suffixed(col, "_cg") THEN c.cg
        ELSE IF k = Suffixed(col, "_citi") THEN c.citi
        ELSE base[k]]

InitChoose ==
  /\ recon = <<>>
  /\ employees = <<>>
  /\ cg_daily = <<>>
  /\ citi_daily = <<>>
  /\ time_off = <<>>
  /\ last = [op |-> "start", arg |-> "", id |-> 0, ok |-> TRUE, n |-> 0]
  /\ ops = 0
  /\ sessions = NoSessions
  /\ \E field \in DOMAIN FieldColumn, cells \in CandidateCells :
       calc = [step |-> "input", field |-> field, cells |-> cells, out |-> NoResult]

\* the field of the ReconEntry that the loop of ingest_workbook builds from the row
ChooseField ==
  /\ calc.step = "input"
  /\ calc' = [calc EXCEPT
                !.step = "chosen",
                !.out = [value |->
                           MonthlyRow(CandidateRow(FieldColumn[calc.field], calc.cells),
                                      <<>>).entry[calc.field]]]
  /\ UNCHANGED <<recon, employees, cg_daily, citi_daily, time_off, last, ops, sessions>>

SpecChoose == InitChoose /\ [][ChooseField]_vars

\* the value of the first candidate, in the order vendor-suffixed, client-suffixed,
\* unsuffixed, that is present and holds a non-empty value; "" when there is none
FirstNonEmpty(row, col) ==
  LET names == <<Suffixed(col, "_cg"), Suffixed(col, "_citi"), col>>
      full == {i \in 1..3 : /\ names[i] \in DOMAIN row
                            /\ ~IsNA(row[names[i]])
                            /\ row[names[i]] # Text("")}
  IN IF full = {} THEN Text("")
     ELSE row[names[CHOOSE i \in full : \A j \in full : i <= j]]

\* C25: each of the fields id, name, vendor email, region code, region name and
\* project name of a merged row takes the value of the first candidate column, in
\* the order vendor-suffixed, client-suffixed, unsuffixed, whose value is non-empty.
C25_FirstNonEmptyCandidate ==
  calc.step = "chosen" =>
    calc.out.value
      = FirstNonEmpty(CandidateRow(FieldColumn[calc.field], calc.cells),
                      FieldColumn[calc.field])

\* the same for the fields other than the vendor e-mail
C25_ExceptVendorEmail ==
  (calc.step = "chosen" /\ calc.field # "cg_email") =>
    calc.out.value
      = FirstNonEmpty(CandidateRow(FieldColumn[calc.field], calc.cells),
                      FieldColumn[calc.field])

-----------------------------------------------------------------------------
(* The records of a month and the requests that write them *)

\* the rows of a daily table that fall in the month of label ym
DailyIn(table, ym) ==
  SelectSeq(table, LAMBDA r : /\ r.date >= DateOf(ParsedLabel[ym][1], ParsedLabel[ym][2], 1)
                              /\ r.date <= DateOf(ParsedLabel[ym][1], ParsedLabel[ym][2], 31))

\* C26: after a grid upload for (system, month) the ReconEntry records of the
\* month reflect the uploaded grid: every e-mail for which the upload stored
\* daily rows has a record in that month.
C26_GridReplacesRecords ==
  [][\A g \in GridUploads :
       (UploadGrid(g) /\ last'.ok) =>
         LET stored == DailyIn(IF g[1] = "CG" THEN cg_daily' ELSE citi_daily', g[2])
         IN \A i \in 1..Len(stored) :
              \E j \in 1..Len(recon') :
                /\ recon'[j].month = g[2]
                /\ recon'[j].citi_email = stored[i].citi_email]_vars

\* a grid upload leaves the ReconEntry records as they are
C26_GridLeavesRecords ==
  [][\A g \in GridUploads : UploadGrid(g) => recon' = recon]_vars

\* a request other than an upload of a workbook keeps every record; in a record it
\* changes nothing but the reminder counter, and that only in a reminder request
C26_InPlaceOnlyReminders ==
  [][(ops' = ops + 1 /\ last'.op # "upload") =>
       /\ Len(recon') >= Len(recon)
       /\ \A i \in 1..Len(recon) :
            /\ [recon'[i] EXCEPT !.reminders = recon[i].reminders] = recon[i]
            /\ recon'[i].reminders \in {recon[i].reminders, recon[i].reminders + 1}
            /\ recon'[i] # recon[i] => last'.op = "send_reminder"]_vars

-----------------------------------------------------------------------------
(* Properties of the daily tables *)

OneRowPerDay(table) ==
  \A i, j \in 1..Len(table) :
    (table[i].citi_email = table[j].citi_email /\ table[i].date = table[j].date) => i = j

\* C27: after any sequence of workbook ingestions and grid uploads, each of the two
\* daily tables holds at most one row per (citi_email, date).
C27_OneRowPerEmailAndDate ==
  OneRowPerDay(cg_daily) /\ OneRowPerDay(citi_daily)

\* a grid upload stores a row only for a day value greater than 0
C27_GridStoresPositiveHours ==
  [][\A g \in GridUploads :
       (UploadGrid(g) /\ last'.ok) =>
         LET stored == DailyIn(IF g[1] = "CG" THEN cg_daily' ELSE citi_daily', g[2])
         IN \A i \in 1..Len(stored) : IsNum(stored[i].hours) /\ stored[i].hours.n > 0]_vars

\* a grid upload changes only the daily rows of the uploaded system for the month,
\* and stores rows only on days that exist in the month
C27_GridReplacesOneMonth ==
  [][\A g \in GridUploads :
       (UploadGrid(g) /\ last'.ok) =>
         LET other(t) == SelectSeq(t, LAMBDA r : r \notin
                           {DailyIn(t, g[2])[i] : i \in 1..Len(DailyIn(t, g[2]))})
         IN /\ g[1] = "CG" => (citi_daily' = citi_daily /\ other(cg_daily') = other(cg_daily))
            /\ g[1] = "CITI" => (cg_daily' = cg_daily /\ other(citi_daily') = other(citi_daily))
            /\ \A i \in 1..Len(DailyIn(cg_daily', g[2])) :
                 DailyIn(cg_daily', g[2])[i].date % 100
                   \in 1..DaysInMonth(ParsedLabel[g[2]][1], ParsedLabel[g[2]][2])
            /\ \A i \in 1..Len(DailyIn(citi_daily', g[2])) :
                 DailyIn(citi_daily', g[2])[i].date % 100
                   \in 1..DaysInMonth(ParsedLabel[g[2]][1], ParsedLabel[g[2]][2])]_vars

-----------------------------------------------------------------------------
(* Properties of a worker listed in one monthly sheet only *)

\* the workbooks that list b@x in one monthly sheet only: the workbook, the month
\* and the source that does not list b@x
OneFeed == {<<"mixed", "2025-01", "citi">>, <<"citi_only", "2025-02", "cg">>}

RecordsOf(email, ym) == {i \in 1..Len(recon) : recon[i].citi_email = email /\ recon[i].month = ym}

\* C28: a worker present in only one of the two monthly sheets has exactly one
\* record for the month, and in it the absent source counts as having submitted
\* nothing: its status is Not Completed, the overall status is not Completed and
\* reconciled_hours is a number that does not exceed 0.
C28_AbsentSourceSubmittedNothing ==
  \A c \in OneFeed :
    (last.op = "upload" /\ last.arg = c[1] /\ last.ok) =>
      /\ Cardinality(RecordsOf("b@x", c[2])) = 1
      /\ \A i \in RecordsOf("b@x", c[2]) :
           /\ (IF c[3] = "cg" THEN recon[i].status_cg ELSE recon[i].status_citi)
                = "Not Completed"
           /\ recon[i].reconciled_status # "Completed"
           /\ IsNum(recon[i].reconciled_hours)
           /\ recon[i].reconciled_hours.n <= 0

\* the first part on its own: exactly one record for the worker and the month
C28_OneRecord ==
  \A c \in OneFeed :
    (last.op = "upload" /\ last.arg = c[1] /\ last.ok) =>
      Cardinality(RecordsOf("b@x", c[2])) = 1

\* what the records hold instead: the absent source is Completed, and the
\* reconciled hours are those of the other source or NULL
C28_AbsentSourceCompleted ==
  \A c \in OneFeed :
    (last.op = "upload" /\ last.arg = c[1] /\ last.ok) =>
      \A i \in RecordsOf("b@x", c[2]) :
        /\ (IF c[3] = "cg" THEN recon[i].status_cg ELSE recon[i].status_citi) = "Completed"
        /\ IF c[3] = "cg"
           THEN recon[i].reconciled_hours = None /\ recon[i].reconciled_status = "Completed"
           ELSE recon[i].reconciled_hours = recon[i].submitted_hours_cg
                /\ recon[i].reconciled_hours.n > 0

-----------------------------------------------------------------------------
(* Properties of the effective expected hours *)

\* the Monday-to-Friday days that an Approved request of the e-mail covers
ApprovedLeaveDays(email) ==
  UNION {WeekdaysBetween(time_off[i].start_date, time_off[i].end_date) :
           i \in {j \in 1..Len(time_off) :
                    time_off[j].citi_email = email /\ time_off[j].status = "Approved"}}

\* the days of the month that are neither a weekend day, nor a listed holiday, nor
\* covered by an Approved leave request of the e-mail
DaysToWork(email, ym, holidays_csv) ==
  {d \in WeekdaysBetween(DateOf(ParsedLabel[ym][1], ParsedLabel[ym][2], 1),
                         DateOf(ParsedLabel[ym][1], ParsedLabel[ym][2], 31)) :
     d \notin HolidaySet(holidays_csv) /\ d \notin ApprovedLeaveDays(email)}

\* C29: the effective expected hours of an (email, month) are 8 x the number of days
\* of the month that are neither a weekend day, nor a listed holiday, nor covered by
\* an Approved leave request of that email, every day deducted at most once.
C29_EachDayDeductedOnce ==
  calc.step = "ingested" =>
    /\ Len(recon) = 1
    /\ recon[1].expected_hours
         = Num(8 * 100 * Cardinality(DaysToWork("a@x", Str(calc.month), calc.holidays)))

\* the same where no listed holiday lies in the approved leave and the worker has
\* one Approved request at most
C29_WithoutOverlap ==
  (/\ calc.step = "ingested"
   /\ calc.leave # "twice"
   /\ HolidaySet(calc.holidays) \cap ApprovedLeaveDays("a@x") = {}) =>
    /\ Len(recon) = 1
    /\ recon[1].expected_hours
         = Num(8 * 100 * Cardinality(DaysToWork("a@x", Str(calc.month), calc.holidays)))

\* one Approved leave of 3 working days inside January 2025, no holidays: the
\* expected hours are 184 - 24 = 160, and 160 on both sources is Completed
C29_ThreeDaysLower24 ==
  (/\ calc.step = "ingested"
   /\ calc.leave = "approved" /\ calc.month = Jan /\ calc.holidays = NaN) =>
    /\ recon[1].expected_hours = Num(16000)
    /\ (calc.submitted_cg = Num(16000) /\ calc.submitted_citi = Num(16000))
         => recon[1].reconciled_status = "Completed"

-----------------------------------------------------------------------------
(* Properties of the reminder counter across ingestions *)

\* the months a workbook covers: the labels of its merged monthly rows; none for a
\* workbook that is rejected before the merge
BookMonths ==
  [name \in WorkbookNames |->
     IF Checked(Workbook[name]) THEN MonthsInFile(MergedRows(Workbook[name])) ELSE {}]

OutsideMonths(table, months) == SelectSeq(table, LAMBDA r : r.month \notin months)

\* C30: every record written by a workbook ingestion has reminders = 0: after the
\* ingestion of a workbook the records of the months it covers all have the
\* counter 0, whatever the counters were, and the records of the other months are
\* kept with their counters.
C30_ReingestionResetsCounters ==
  [][(ops' = ops + 1 /\ last'.op = "upload") =>
       \/ ~last'.ok /\ recon' = recon
       \/ /\ \A j \in 1..Len(recon') :
               recon'[j].month \in BookMonths[last'.arg] => recon'[j].reminders = 0
          /\ OutsideMonths(recon', BookMonths[last'.arg])
               = OutsideMonths(recon, BookMonths[last'.arg])]_vars

\* C30 case: January and February of a@x were ingested, a reminder was counted on
\* the February record, and a workbook for January alone was ingested: the January
\* record has the counter 0 and the February record still has the counter 1.
C30_OtherMonthKept ==
  /\ last.op = "upload" /\ last.arg = "complete" /\ last.ok /\ ops = 3
  /\ \E i \in 1..Len(recon) :
       recon[i].month = "2025-02" /\ recon[i].citi_email = "a@x" /\ recon[i].reminders = 1
  /\ \E i \in 1..Len(recon) :
       recon[i].month = "2025-01" /\ recon[i].citi_email = "a@x" /\ recon[i].reminders = 0
====
